---- MODULE Spec2Model ----
(***************************************************************************)
(* Model of the AI Tab Navigator popup (src/popup.js): the search handler, *)
(* the result reconciler (selectFromSummariesWithAIOrFallback), the        *)
(* keyword extractor and tag search, the cancel handler and the search     *)
(* mode toggles.  Strings are sequences of one-character strings so that   *)
(* lowercasing, splitting and substring tests are computed, not assumed.   *)
(***************************************************************************)
EXTENDS Integers, Sequences, FiniteSets, TLC

(***************************************************************************)
(* Strings                                                                 *)
(***************************************************************************)

\* String.prototype.toLowerCase on one character (ASCII letters).
LowerChar(c) ==
    CASE c = "A" -> "a" [] c = "B" -> "b" [] c = "C" -> "c" [] c = "D" -> "d"
      [] c = "E" -> "e" [] c = "F" -> "f" [] c = "G" -> "g" [] c = "H" -> "h"
      [] c = "I" -> "i" [] c = "J" -> "j" [] c = "K" -> "k" [] c = "L" -> "l"
      [] c = "M" -> "m" [] c = "N" -> "n" [] c = "O" -> "o" [] c = "P" -> "p"
      [] c = "Q" -> "q" [] c = "R" -> "r" [] c = "S" -> "s" [] c = "T" -> "t"
      [] c = "U" -> "u" [] c = "V" -> "v" [] c = "W" -> "w" [] c = "X" -> "x"
      [] c = "Y" -> "y" [] c = "Z" -> "z" [] OTHER -> c

\* String.prototype.toLowerCase
toLowerCase(s) == [i \in 1..Len(s) |-> LowerChar(s[i])]

\* The characters the regular expression class \s matches (those used here).
WhiteSpace == {" ", "\t", "\n"}

\* String.prototype.includes
includes(hay, needle) ==
    \E i \in 0..(Len(hay) - Len(needle)) :
        \A j \in 1..Len(needle) : hay[i + j] = needle[j]

\* String.prototype.startsWith
startsWith(s, prefix) ==
    /\ Len(prefix) <= Len(s)
    /\ \A j \in 1..Len(prefix) : s[j] = prefix[j]

\* String.prototype.endsWith
endsWith(s, suffix) ==
    /\ Len(suffix) <= Len(s)
    /\ \A j \in 1..Len(suffix) : s[Len(s) - Len(suffix) + j] = suffix[j]

\* Array.prototype.join: the strings of ss separated by sep.
RECURSIVE join(_, _)
join(ss, sep) ==
    IF ss = <<>> THEN <<>>
    ELSE IF Len(ss) = 1 THEN ss[1]
    ELSE ss[1] \o sep \o join(Tail(ss), sep)

\* String.prototype.split on a separator class, scanning left to right:
\* every separator run closes the current piece (empty pieces included,
\* as split(/\s+/) and split(/[,\s]+/) produce them at the two ends).
RECURSIVE SplitRuns(_, _, _, _, _)
SplitRuns(s, i, cur, inSep, seps) ==
    IF i > Len(s) THEN <<cur>>
    ELSE IF s[i] \in seps
         THEN IF inSep THEN SplitRuns(s, i + 1, cur, TRUE, seps)
              ELSE <<cur>> \o SplitRuns(s, i + 1, <<>>, TRUE, seps)
         ELSE SplitRuns(s, i + 1, Append(cur, s[i]), FALSE, seps)

\* s.split(/\s+/).filter(Boolean)
SplitWords(s) == SelectSeq(SplitRuns(s, 1, <<>>, FALSE, WhiteSpace), LAMBDA w : w # <<>>)

\* The elements of a sequence.
Range(seq) == {seq[i] : i \in 1..Len(seq)}

\* [...new Set(seq)]: first occurrences, in order.
RECURSIVE Dedup(_)
Dedup(seq) ==
    IF seq = <<>> THEN <<>>
    ELSE LET r == Dedup(SubSeq(seq, 1, Len(seq) - 1))
             x == seq[Len(seq)]
         IN IF x \in Range(r) THEN r ELSE Append(r, x)

(***************************************************************************)
(* Keyword extractor                                                       *)
(***************************************************************************)

\* The fixed stop-word set of extractKeywords.
stopWords == {
    <<"i">>, <<"m", "e">>, <<"m", "y">>, <<"y", "o", "u", "r">>,
    <<"a">>, <<"a", "n">>, <<"t", "h", "e">>, <<"t", "a", "b">>,
    <<"t", "a", "b", "s">>, <<"l", "o", "o", "k", "i", "n", "g">>, <<"f", "i", "n", "d">>, <<"s", "e", "a", "r", "c", "h">>,
    <<"s", "h", "o", "w">>, <<"o", "p", "e", "n">>, <<"f", "o", "r">>, <<"a", "b", "o", "u", "t">>,
    <<"i", "n">>, <<"o", "n">>, <<"a", "t">>, <<"t", "o">>,
    <<"f", "r", "o", "m">>, <<"w", "i", "t", "h">>, <<"o", "f">>, <<"a", "n", "d">>,
    <<"o", "r">>, <<"b", "u", "t">>, <<"t", "h", "i", "s">>, <<"t", "h", "a", "t">>,
    <<"t", "h", "e", "s", "e">>, <<"t", "h", "o", "s", "e">>, <<"i", "s">>, <<"a", "r", "e">>,
    <<"w", "a", "s">>, <<"w", "e", "r", "e">>, <<"b", "e">>, <<"b", "e", "e", "n">>,
    <<"b", "e", "i", "n", "g">>, <<"h", "a", "v", "e">>, <<"h", "a", "s">>, <<"h", "a", "d">>,
    <<"d", "o">>, <<"d", "o", "e", "s">>, <<"d", "i", "d">>, <<"w", "i", "l", "l">>,
    <<"w", "o", "u", "l", "d">>, <<"s", "h", "o", "u", "l", "d">>, <<"c", "o", "u", "l", "d">>, <<"m", "a", "y">>,
    <<"m", "i", "g", "h", "t">>, <<"c", "a", "n">>, <<"w", "a", "n", "t">>, <<"n", "e", "e", "d">>,
    <<"a", "m">>, <<"t", "r", "y">>, <<"g", "e", "t">>, <<"g", "o">>,
    <<"s", "e", "e">>, <<"r", "e", "l", "a", "t", "e", "d">>, <<"s", "o", "m", "e">>, <<"a", "n", "y">>,
    <<"a", "l", "l">>, <<"w", "h", "e", "r", "e">>
}

\* The length a token must exceed to be kept as a keyword.
MinKeywordLen == 2

\* The filter predicate of extractKeywords: not a stop word and longer
\* than two characters.
KeepKeywordOff(word) == word \notin stopWords /\ Len(word) >= MinKeywordLen
KeepKeyword(word) == word \notin stopWords /\ Len(word) > MinKeywordLen

\* The fallback to the unfiltered words when nothing survives.
KeywordsOrWordsNoFallback(keywords, words) == keywords
KeywordsOrWords(keywords, words) == IF Len(keywords) = 0 THEN words ELSE keywords

\* The keywords among the words of a query, or all the words.
KeywordsOf(words) == KeywordsOrWords(SelectSeq(words, KeepKeyword), words)

\* extractKeywords(query)
extractKeywords(query) == KeywordsOf(SplitWords(toLowerCase(query)))

(***************************************************************************)
(* Tag search                                                              *)
(***************************************************************************)

\* The separators of the hashtag tokenizer, /[,\s]+/.
HashtagSeps == WhiteSpace \cup {","}

\* String.prototype.trim
RECURSIVE trimLeft(_)
trimLeft(s) == IF s # <<>> /\ s[1] \in WhiteSpace THEN trimLeft(Tail(s)) ELSE s
RECURSIVE trimRight(_)
trimRight(s) ==
    IF s # <<>> /\ s[Len(s)] \in WhiteSpace THEN trimRight(SubSeq(s, 1, Len(s) - 1)) ELSE s
trim(s) == trimRight(trimLeft(s))

\* parseHashtagQuery(query): the tokens that start with '#', prefix
\* stripped and lowercased, empty ones dropped.
parseHashtagQuery(query) ==
    LET trimmed == trim(query)
        tokens == SplitRuns(trimmed, 1, <<>>, FALSE, HashtagSeps)
        marked == SelectSeq(tokens, LAMBDA w : startsWith(w, <<"#">>))
        stripped == [i \in 1..Len(marked) |-> toLowerCase(Tail(marked[i]))]
        hashtags == SelectSeq(stripped, LAMBDA t : t # <<>>)
    IN IF includes(trimmed, <<"#">>) /\ Len(hashtags) > 0
       THEN [isHashtagSearch |-> TRUE, tags |-> hashtags]
       ELSE [isHashtagSearch |-> FALSE, tags |-> <<>>]

\* The score added for every search tag that matches a tab.
TagMatchScore == 10

\* TagMatches with the containment tests left out.
TagMatchesExact(tabTag, searchTag) == tabTag = searchTag

\* TagMatches without the test that the search tag contains the tab tag.
TagMatchesOneWay(tabTag, searchTag) == tabTag = searchTag \/ includes(tabTag, searchTag)

\* The match test of performTagSearch between one tab tag and one search tag.
TagMatches(tabTag, searchTag) ==
    tabTag = searchTag \/ includes(tabTag, searchTag) \/ includes(searchTag, tabTag)

\* The search tags of a query that match some tag of the tab, in query
\* order, one entry per search tag occurrence (the inner loop breaks at
\* the first matching tab tag).
MatchedTags(tabTags, searchTags) ==
    SelectSeq(searchTags, LAMBDA st : \E i \in 1..Len(tabTags) : TagMatches(tabTags[i], st))

\* The ids of scored items, in order, and the item with a given id.
IdsOf(xs) == [i \in 1..Len(xs) |-> xs[i].id]
ById(xs, id) == CHOOSE x \in Range(xs) : x.id = id

\* The lowercased tags of a summary.
tabTags(s) == [i \in 1..Len(s.tags) |-> toLowerCase(s.tags[i])]

\* The summaries with a matching tag, in input order, each with the
\* search tags it matched.
TagHits(summaries, searchTags) ==
    SelectSeq([i \in 1..Len(summaries) |->
                [id |-> summaries[i].id,
                 matched |-> MatchedTags(tabTags(summaries[i]), searchTags)]],
           LAMBDA h : Len(h.matched) > 0)

\* The ids performTagSearch returns and the reasons and scores it stores
\* in session storage.
TagOutcome(hits) ==
    [ids |-> IdsOf(hits),
     reasons |-> [id \in Range(IdsOf(hits)) |->
         [kind |-> "tags", words |-> ById(hits, id).matched, fields |-> <<>>]],
     scores |-> [id \in Range(IdsOf(hits)) |-> TagMatchScore * Len(ById(hits, id).matched)]]

\* performTagSearch(summaries, searchTags)
performTagSearch(summaries, searchTags) == TagOutcome(TagHits(summaries, searchTags))

(***************************************************************************)
(* Lexical scorer                                                          *)
(***************************************************************************)

\* The suffixes removed by the stem regular expression
\* /(?:ing|ed|s|es|ship|ships)$/i.
StemSuffixes == { <<"i", "n", "g">>, <<"e", "d">>, <<"s">>, <<"e", "s">>, <<"s", "h", "i", "p">>, <<"s", "h", "i", "p", "s">> }

\* The largest number of a non-empty set.
Max(S) == CHOOSE m \in S : \A k \in S : k <= m

\* The word without its last n characters, n the largest of lens.
DropSuffix(word, lens) ==
    IF lens = {} THEN word ELSE SubSeq(word, 1, Len(word) - Max(lens))

\* word.replace(/(?:ing|ed|s|es|ship|ships)$/i, ''): the leftmost match of
\* an end-anchored alternation is the longest suffix of the word among
\* the alternatives.
Stem(word) ==
    DropSuffix(word, {Len(x) : x \in {y \in StemSuffixes : endsWith(toLowerCase(word), y)}})

\* The shortest query word and the shortest stem that are scored.
MinWordLen == 3
MinStemLen == 3

\* The match test without the stem.
MatchesWordOnly(field, word, stem) == includes(field, word)

\* A field matches a word when it contains the word, or the stem when the
\* stem has at least three characters.
MatchesWordOrStem(field, word, stem) ==
    includes(field, word) \/ (Len(stem) >= MinStemLen /\ includes(field, stem))
FieldMatch(field, word) == MatchesWordOrStem(field, word, Stem(word))

\* Field weights of the lexical scorer.
TitleWeight == 5
TagWeight == 7
SummaryWeight == 3
ContentWeight == 4
UrlWeight == 1

\* string.replace(pattern, '') for a literal pattern: the first occurrence
\* is removed.
removeFirst(s, pat) ==
    IF ~includes(s, pat) THEN s
    ELSE LET i == CHOOSE k \in 0..(Len(s) - Len(pat)) :
                    /\ \A j \in 1..Len(pat) : s[k + j] = pat[j]
                    /\ \A k2 \in 0..(k - 1) : \E j \in 1..Len(pat) : s[k2 + j] # pat[j]
         IN SubSeq(s, 1, i) \o SubSeq(s, i + Len(pat) + 1, Len(s))

\* The normalized URL field: hostname without 'www.' and the path with
\* '/', '-' and '_' turned into spaces, lowercased; the raw url when it
\* does not parse.
urlParts(url) ==
    IF url.valid
    THEN toLowerCase(removeFirst(url.hostname, <<"w", "w", "w", ".">>) \o <<" ">> \o
            [i \in 1..Len(url.pathname) |->
                IF url.pathname[i] \in {"/", "-", "_"} THEN " " ELSE url.pathname[i]])
    ELSE toLowerCase(url.href)

\* The joined, lowercased tags of a summary.
tagsText(s) == join([i \in 1..Len(s.tags) |-> toLowerCase(s.tags[i])], <<" ">>)

\* minScore without the two points per word.
minScoreFloor(words) == 4

\* minScore = Math.max(words.length * 2, 4)
minScore(words) == IF Len(words) * 2 > 4 THEN Len(words) * 2 ELSE 4

\* The names of the fields that match a word, in the order of texts.
NamesOf(fs) == [i \in 1..Len(fs) |-> fs[i].name]
MatchedFields(texts, word) == NamesOf(SelectSeq(texts, LAMBDA f : FieldMatch(f.text, word)))

\* The fields the batch scorer tests for every scored word, in the order
\* the code tests them (title, tags, summary, url).
BatchTexts(s) ==
    << [name |-> "title", text |-> toLowerCase(s.title)],
       [name |-> "tags", text |-> tagsText(s)],
       [name |-> "summary", text |-> toLowerCase(s.summary)],
       [name |-> "url", text |-> urlParts(s.url)] >>
BatchFields(s, word) == MatchedFields(BatchTexts(s), word)

\* The weight of a field name.
Weight(f) ==
    CASE f = "title" -> TitleWeight [] f = "tags" -> TagWeight
      [] f = "summary" -> SummaryWeight [] f = "content" -> ContentWeight
      [] f = "url" -> UrlWeight

RECURSIVE SumWeights(_)
SumWeights(fs) == IF fs = <<>> THEN 0 ELSE Weight(fs[1]) + SumWeights(Tail(fs))

RECURSIVE Flatten(_)
Flatten(ss) == IF ss = <<>> THEN <<>> ELSE ss[1] \o Flatten(Tail(ss))

\* The scored words: those of length >= 3.
ScoredWords(words) == SelectSeq(words, LAMBDA w : Len(w) >= MinWordLen)

\* The words that matched a field: per[i] lists the fields of ws[i].
RECURSIVE HitWords(_, _)
HitWords(ws, per) ==
    IF ws = <<>> THEN <<>>
    ELSE (IF Head(per) # <<>> THEN <<Head(ws)>> ELSE <<>>) \o HitWords(Tail(ws), Tail(per))

\* One element of the 'scored' array of performFallbackSearch, from the
\* fields every scored word matched.
ScoreRecord(id, ws, per) ==
    [id |-> id, score |-> SumWeights(Flatten(per)),
     matchedIn |-> Dedup(Flatten(per)), matchedWords |-> Dedup(HitWords(ws, per))]
BatchScoreOf(s, ws) == ScoreRecord(s.id, ws, [i \in 1..Len(ws) |-> BatchFields(s, ws[i])])
BatchScore(s, words) == BatchScoreOf(s, ScoredWords(words))

\* The array left in its order.
SortKeepsOrder(xs) == xs

\* Array.prototype.sort((a, b) => b.score - a.score): stable, by
\* descending score.
RECURSIVE SortByScoreDesc(_)
SortByScoreDesc(xs) ==
    IF xs = <<>> THEN <<>>
    ELSE LET r == SortByScoreDesc(SubSeq(xs, 1, Len(xs) - 1))
             x == xs[Len(xs)]
             k == Cardinality({i \in 1..Len(r) : r[i].score >= x.score})
         IN SubSeq(r, 1, k) \o <<x>> \o SubSeq(r, k + 1, Len(r))

\* The ids the batch scorer returns for the items that reach the minimum
\* score, and the reasons and scores it stores.
BatchOutcome(filtered) ==
    [ids |-> IdsOf(filtered),
     reasons |-> [id \in Range(IdsOf(filtered)) |->
         [kind |-> "matched", words |-> ById(filtered, id).matchedWords,
          fields |-> ById(filtered, id).matchedIn]],
     scores |-> [id \in Range(IdsOf(filtered)) |-> ById(filtered, id).score]]
BatchSearch(summaries, words) ==
    BatchOutcome(SelectSeq(SortByScoreDesc([i \in 1..Len(summaries) |->
                                            BatchScore(summaries[i], words)]),
                        LAMBDA x : x.score >= minScore(words)))

\* performFallbackSearch(summaries, query) in batch mode.
performFallbackSearch(summaries, query) == BatchSearch(summaries, extractKeywords(query))

\* The quick pass of the progressive (aggressive) scorer over title, tags
\* and url, in the order the code tests them.
QuickTexts(s) ==
    << [name |-> "title", text |-> toLowerCase(s.title)],
       [name |-> "tags", text |-> tagsText(s)],
       [name |-> "url", text |-> urlParts(s.url)] >>
QuickFields(s, word) == MatchedFields(QuickTexts(s), word)

\* The fields every scored word matched in the quick pass.
QuickPer(s, ws) == [i \in 1..Len(ws) |-> QuickFields(s, ws[i])]

\* The quick-pass score of one summary.
QuickScore(s, words) == SumWeights(Flatten(QuickPer(s, ScoredWords(words))))

\* The words of the query found in the full page text.
ContentWords(fullText, words) ==
    SelectSeq(ScoredWords(words), LAMBDA w : FieldMatch(toLowerCase(fullText), w))

\* The score after the content pass: the quick score plus 4 per word
\* found in the full page text (nothing when the text is empty).
ContentScore(s, fullText, words) ==
    QuickScore(s, words) +
    (IF fullText = <<>> THEN 0 ELSE ContentWeight * Len(ContentWords(fullText, words)))

\* The reason string of the progressive scorer: matched words (one entry
\* per push, not deduplicated) and the distinct fields.
AggReasonOf(ws, per, cw) ==
    [kind |-> "matched", words |-> HitWords(ws, per) \o cw,
     fields |-> Dedup(Flatten(per) \o [i \in 1..Len(cw) |-> "content"])]
AggReason(s, fullText, words, withContent) ==
    AggReasonOf(ScoredWords(words), QuickPer(s, ScoredWords(words)),
                IF withContent /\ fullText # <<>> THEN ContentWords(fullText, words) ELSE <<>>)

(***************************************************************************)
(* The open tabs, their cached summaries and the queries a user enters     *)
(***************************************************************************)

\* A parsed http(s) URL, as new URL(...) yields it.
Url(host, path) ==
    [valid |-> TRUE, protocol |-> <<"h", "t", "t", "p", "s", ":">>, hostname |-> host, pathname |-> path,
     href |-> <<"h", "t", "t", "p", "s", ":", "/", "/">> \o host \o path]

\* chrome.tabs.query({}): the open tabs in enumeration order, each with
\* the page text the content script extracts from it.
Tabs == <<
    [id |-> 1, title |-> <<"W", "e", "b", " ", "d", "e", "v", " ", "g", "u", "i", "d", "e">>, url |-> Url(<<"w", "w", "w", ".", "w", "e", "b", "d", "e", "v", ".", "o", "r", "g">>, <<"/", "g", "u", "i", "d", "e">>),
     fullText |-> <<"A", " ", "g", "u", "i", "d", "e", " ", "t", "o", " ", "w", "e", "b", " ", "d", "e", "v", "e", "l", "o", "p", "m", "e", "n", "t">>],
    [id |-> 2, title |-> <<"D", "a", "i", "l", "y", " ", "n", "e", "w", "s">>, url |-> Url(<<"n", "e", "w", "s", ".", "c", "o", "m">>, <<"/", "d", "a", "i", "l", "y">>),
     fullText |-> <<"H", "e", "a", "d", "l", "i", "n", "e", "s", " ", "o", "f", " ", "t", "h", "e", " ", "d", "a", "y">>],
    [id |-> 3, title |-> <<"I", "c", "e", " ", "c", "r", "e", "a", "m", " ", "r", "e", "c", "i", "p", "e", "s">>, url |-> Url(<<"f", "o", "o", "d", ".", "n", "e", "t">>, <<"/", "i", "c", "e", "-", "c", "r", "e", "a", "m">>),
     fullText |-> <<"B", "e", "s", "t", " ", "r", "e", "c", "i", "p", "e", "s", " ", "o", "n", " ", "t", "h", "e", " ", "W", "e", "b">>] >>

TabIds == {Tabs[i].id : i \in 1..Len(Tabs)}

\* isScriptableUrl(url): http and https pages outside the Chrome web store.
isScriptableUrl(url) ==
    /\ url.valid
    /\ url.protocol \in {<<"h", "t", "t", "p", ":">>, <<"h", "t", "t", "p", "s", ":">>}
    /\ url.hostname \notin {<<"c", "h", "r", "o", "m", "e", ".", "g", "o", "o", "g", "l", "e", ".", "c", "o", "m">>, <<"c", "h", "r", "o", "m", "e", "w", "e", "b", "s", "t", "o", "r", "e", ".", "g", "o", "o", "g", "l", "e", ".", "c", "o", "m">>}

\* getExistingSummaries(tabs) over a fresh summary cache: one summary per
\* tab, in tab order, with the cached summary text and tags.
SummaryOf(tab, summary, tags) ==
    [id |-> tab.id, title |-> tab.title, url |-> tab.url, summary |-> summary, tags |-> tags]
Summaries == <<
    SummaryOf(Tabs[1], <<"G", "u", "i", "d", "e", " ", "t", "o", " ", "w", "e", "b", " ", "d", "e", "v", "e", "l", "o", "p", "m", "e", "n", "t">>, <<<<"W", "e", "b">>, <<"h", "t", "m", "l">>>>),
    SummaryOf(Tabs[2], <<"D", "a", "i", "l", "y", " ", "h", "e", "a", "d", "l", "i", "n", "e", "s">>, <<<<"w", "e", "b", "d", "e", "v">>>>),
    SummaryOf(Tabs[3], <<"D", "e", "s", "s", "e", "r", "t", " ", "r", "e", "c", "i", "p", "e", "s">>, <<<<"f", "o", "o", "d">>, <<"d", "e", "s", "s", "e", "r", "t">>>>) >>

\* The queries typed into the search box (input.value.trim(), non-empty).
QueryText == <<<<"w", "e", "b">>, <<"#", "w", "e", "b">>, <<"I", " ", "a", "m">>>>
Queries == 1..Len(QueryText)

\* Per query: the hashtag parse, the keywords, and what the scorers
\* compute over Summaries.
Hashtag == [q \in Queries |-> parseHashtagQuery(QueryText[q])]
Keywords == [q \in Queries |-> extractKeywords(QueryText[q])]
TagResult == [q \in Queries |-> performTagSearch(Summaries, Hashtag[q].tags)]
LexResult == [q \in Queries |-> performFallbackSearch(Summaries, QueryText[q])]

\* The lists the semantic scorer can return after validating a model
\* response (the model is external: any of them can come back).
SemLists == {<<>>, <<2, 3>>, <<1, 2>>}

\* Outcomes of session creation and of the model prompt.
SessionOutcomes == {"nosession", "session"}
PromptFailures == {"null", "unparsable", "throw"}

(***************************************************************************)
(* State of the popup                                                      *)
(***************************************************************************)

\* Bounds of the model: searches started, cancel clicks, the number of
\* pieces a generated query is made of, and the number of prompts the
\* language model answers with a list that survives validation.
MaxSearches == 2
MaxEnds == 1
MaxPieces == 3
MaxAnswers == 1

Searches == 1..MaxSearches

VARIABLES
    aggressiveSearchEnabled, \* the 'Aggressive' mode flag
    aiOnlyEnabled,           \* the 'AI Only' mode flag
    activeSearchController,  \* the search whose AbortController is held, 0 for null
    aborted,                 \* the searches whose signal is aborted
    cancelled,               \* the searches that were running when cancel was clicked
    aiSearchSession,         \* chrome.storage.session: the persisted search session
    tabResultSources,        \* chrome.storage.session: id -> 'keyword' | 'ai'
    tabSelectionReasons,     \* chrome.storage.session: id -> reason
    tabSelectionScores,      \* chrome.storage.session: id -> score
    isSearching,             \* chrome.storage.session: the query of the running search, 0 if absent
    searchHistory,           \* chrome.storage.local: today's history, queries most recent first
    historyItems,            \* the history chips shown
    resultsUl,               \* the rendered result list (tab ids in display order)
    status,                  \* the status line: kind, count, and the search that set it
    searchDisabled,          \* searchButton.disabled and input.disabled
    endDisabled,             \* endButton.disabled
    endHidden,               \* endButton.style.display is 'none'
    inputEmpty,              \* input.value is empty
    chipsDisabled,           \* the history chips carry the 'disabled' class
    nextSearch,              \* the number the next search gets
    srch,                    \* per search: position and locals of handleSearch / the reconciler
    ai,                      \* per search: position and locals of tryOnDeviceSelectFromSummaries
    cont,                    \* per search: position and locals of the aiPromise.then callback
    endc,                    \* position and locals of handleEndSearch
    endCount,                \* cancel clicks so far
    clearTimers,             \* pending setTimeout(() => setStatus('', ''), 2000) callbacks
    answers,                 \* prompts answered with a valid list so far
    fnIn,                    \* input of the pure function under test
    fnOut                    \* its output

vars == <<aggressiveSearchEnabled, aiOnlyEnabled, activeSearchController, aborted, cancelled,
          aiSearchSession, tabResultSources, tabSelectionReasons, tabSelectionScores,
          isSearching, searchHistory, historyItems, resultsUl, status, searchDisabled,
          endDisabled, endHidden, inputEmpty, chipsDisabled, nextSearch, srch, ai, cont,
          endc, endCount, clearTimers, answers, fnIn, fnOut>>

flagVars == <<aggressiveSearchEnabled, aiOnlyEnabled>>
storeVars == <<aiSearchSession, tabResultSources, tabSelectionReasons, tabSelectionScores,
               isSearching, searchHistory>>
uiVars == <<historyItems, resultsUl, status, searchDisabled, endDisabled, endHidden,
           chipsDisabled>>
fnVars == <<fnIn, fnOut>>

EmptyMap == [x \in {} |-> 0]

\* { ...a, ...b }
Merge(a, b) ==
    [x \in (DOMAIN a) \cup (DOMAIN b) |-> IF x \in DOMAIN b THEN b[x] ELSE a[x]]

\* ids.forEach(id => { map[id] = label })
Labelled(ids, label) == [id \in Range(ids) |-> label]

NoSession == [present |-> FALSE, query |-> 0, tabIds |-> <<>>, preserveOrder |-> TRUE]

\* buildSessionRecord with preserveOrder = false as its default.
buildSessionRecordUnranked(tabIds, query) ==
    [present |-> TRUE, query |-> query, tabIds |-> tabIds, preserveOrder |-> FALSE]

\* buildSessionRecord(tabIds, query, []): preserveOrder takes its
\* default, true.
buildSessionRecord(tabIds, query) ==
    [present |-> TRUE, query |-> query, tabIds |-> tabIds, preserveOrder |-> TRUE]

Status(kind, n, by) == [kind |-> kind, n |-> n, by |-> by]
NoStatus == Status("", 0, 0)

IdleSearch ==
    [pc |-> "idle", q |-> 0, mode |-> "", i |-> 0, results |-> <<>>, fb |-> <<>>,
     ret |-> <<>>, histSnap |-> <<>>, srcSnap |-> EmptyMap,
     kw |-> FALSE, lex |-> FALSE, sem |-> FALSE, tag |-> FALSE, srcW |-> EmptyMap]
IdleAI == [pc |-> "idle", out |-> <<>>, res |-> <<>>, reasons |-> EmptyMap, scores |-> EmptyMap]
IdleCont == [pc |-> "idle", snap |-> NoSession]
IdleEnd == [pc |-> "idle", snap |-> NoSession]

\* The state a session left by an earlier popup lifetime is restored from:
\* a finished search for the first query whose keyword results stand.
RestoredQuery == 1

\* The popup after DOMContentLoaded, the preference load and
\* initSessionState: either nothing is stored, or a session is restored.
InitPopup(aggr, aiOnly, restored) ==
    /\ aggressiveSearchEnabled = aggr
    /\ aiOnlyEnabled = aiOnly
    /\ activeSearchController = 0
    /\ aborted = {}
    /\ cancelled = {}
    /\ aiSearchSession = IF restored
                         THEN buildSessionRecord(LexResult[RestoredQuery].ids, RestoredQuery)
                         ELSE NoSession
    /\ tabResultSources = IF restored THEN Labelled(LexResult[RestoredQuery].ids, "keyword")
                          ELSE EmptyMap
    /\ tabSelectionReasons = IF restored THEN LexResult[RestoredQuery].reasons ELSE EmptyMap
    /\ tabSelectionScores = IF restored THEN LexResult[RestoredQuery].scores ELSE EmptyMap
    /\ isSearching = 0
    /\ searchHistory = IF restored THEN <<RestoredQuery>> ELSE <<>>
    /\ historyItems = IF restored THEN <<RestoredQuery>> ELSE <<>>
    /\ resultsUl = IF restored THEN LexResult[RestoredQuery].ids ELSE <<>>
    /\ status = IF restored THEN Status("ActiveSearch", 0, 0) ELSE NoStatus
    /\ searchDisabled = FALSE
    /\ endDisabled = ~restored
    /\ endHidden = ~restored
    /\ inputEmpty = ~restored
    /\ chipsDisabled = FALSE
    /\ nextSearch = 1
    /\ srch = [k \in Searches |-> IdleSearch]
    /\ ai = [k \in Searches |-> IdleAI]
    /\ cont = [k \in Searches |-> IdleCont]
    /\ endc = IdleEnd
    /\ endCount = 0
    /\ clearTimers = 0
    /\ answers = 0

\* The pure function under test: none while the popup runs.
NoCall == [op |-> "none", arg |-> <<>>]
NoResult == [done |-> FALSE, value |-> <<>>]

\* The stored mode preferences after the load callback made them exclusive.
ModePrefs == {<<FALSE, FALSE>>, <<TRUE, FALSE>>, <<FALSE, TRUE>>}

Init ==
    /\ \E m \in ModePrefs, restored \in BOOLEAN : InitPopup(m[1], m[2], restored)
    /\ fnIn = NoCall
    /\ fnOut = NoResult

(***************************************************************************)
(* handleSearch and the reconciler                                         *)
(*                                                                         *)
(* An action is the code that runs between two awaits of a chrome.* call   *)
(* (several consecutive awaits with nothing between them are one           *)
(* boundary).  A storage call takes effect when it is issued.  Code that   *)
(* resumes on a promise of the program itself (the return of an async      *)
(* function, a then-callback on a settled promise) runs before the task    *)
(* ends, so it is part of the action that settles the promise.             *)
(***************************************************************************)

ctlVars == <<activeSearchController, aborted, cancelled>>
selVars == <<tabSelectionReasons, tabSelectionScores>>
histVars == <<searchHistory, historyItems>>
busyVars == <<searchDisabled, chipsDisabled, isSearching, endHidden>>
endVars == <<endc, endCount, clearTimers, answers>>

Set(k, rec) == srch' = [srch EXCEPT ![k] = rec]

\* The branch order of selectFromSummariesWithAIOrFallback: hashtag query,
\* then the aggressive flag, then the AI-only flag, else both scorers.
DispatchModeFlagsFirst(q, aggr, aiOnly) ==
    IF aggr THEN "aggressive"
    ELSE IF aiOnly THEN "aionly"
    ELSE IF Hashtag[q].isHashtagSearch THEN "hashtag"
    ELSE "hybrid"
DispatchModeNoAiOnly(q, aggr, aiOnly) ==
    IF Hashtag[q].isHashtagSearch THEN "hashtag"
    ELSE IF aggr THEN "aggressive"
    ELSE "hybrid"
DispatchMode(q, aggr, aiOnly) ==
    IF Hashtag[q].isHashtagSearch THEN "hashtag"
    ELSE IF aggr THEN "aggressive"
    ELSE IF aiOnly THEN "aionly"
    ELSE "hybrid"

\* renderResultsList(allTabs, ids, true): the open tabs among ids, in the
\* order of ids.
renderResultsList(ids) == Dedup(SelectSeq(ids, LAMBDA id : id \in TabIds))

\* The finally block of handleSearch up to its await: setBusy(false),
\* which shows the end button when the input holds text, and the removal
\* of the isSearching flag.
Finally(k, rec) ==
    /\ searchDisabled' = FALSE
    /\ chipsDisabled' = FALSE
    /\ endHidden' = inputEmpty
    /\ isSearching' = 0
    /\ Set(k, [rec EXCEPT !.pc = "finNull"])

\* handleSearch resumes with the ids the reconciler returned: the abort
\* check, which leads to the finally block; otherwise logSearchHistory
\* reads the stored history.
Resume(k, rec) ==
    IF k \in aborted
    THEN Finally(k, rec)
    ELSE /\ Set(k, [rec EXCEPT !.pc = "logWrite", !.histSnap = searchHistory])
         /\ UNCHANGED busyVars

\* handleSearch with an empty input: only a status message.
SearchEmptyQuery ==
    /\ ~searchDisabled
    /\ status' = Status("PleaseEnter", 0, 0)
    /\ UNCHANGED <<flagVars, ctlVars, aiSearchSession, tabResultSources, selVars, histVars,
                   busyVars, resultsUl, endDisabled, nextSearch, srch, ai, cont, endVars,
                   inputEmpty, fnVars>>

\* handleSearch up to its first await, entered from the search button or
\* the Enter key (viaChip = FALSE) or from a history chip.  The query is
\* in the input (typed, or set by the chip), which shows the end button.
StartSearch(q, viaChip) ==
    /\ nextSearch <= MaxSearches
    /\ IF viaChip THEN ~chipsDisabled /\ q \in Range(historyItems) ELSE ~searchDisabled
    /\ activeSearchController' = nextSearch
    /\ resultsUl' = <<>>
    /\ status' = NoStatus
    /\ searchDisabled' = TRUE
    /\ inputEmpty' = FALSE
    /\ endHidden' = FALSE
    /\ IF aggressiveSearchEnabled
       THEN UNCHANGED <<endDisabled, chipsDisabled>>
       ELSE endDisabled' = TRUE /\ chipsDisabled' = TRUE
    /\ isSearching' = q
    /\ Set(nextSearch, [IdleSearch EXCEPT !.pc = "started", !.q = q])
    /\ nextSearch' = nextSearch + 1
    /\ UNCHANGED <<flagVars, aborted, cancelled, aiSearchSession, tabResultSources, selVars,
                   histVars, ai, cont, endVars, fnVars>>

\* handleSearch after the tab query and getExistingSummaries: the abort
\* checks, then the reconciler up to the first await of the branch taken.
Dispatch(k) ==
    /\ srch[k].pc = "started"
    /\ LET q == srch[k].q
           m == DispatchMode(q, aggressiveSearchEnabled, aiOnlyEnabled)
       IN IF k \in aborted
          THEN /\ Finally(k, srch[k])
               /\ UNCHANGED <<selVars, ai>>
          ELSE /\ UNCHANGED busyVars
               /\ CASE m = "hashtag" ->
                        /\ Set(k, [srch[k] EXCEPT !.pc = "tagSrc", !.mode = m, !.tag = TRUE,
                                                  !.results = TagResult[q].ids])
                        /\ tabSelectionReasons' = TagResult[q].reasons
                        /\ tabSelectionScores' = TagResult[q].scores
                        /\ UNCHANGED ai
                    [] m = "aggressive" ->
                        /\ Set(k, [srch[k] EXCEPT !.pc = "aggStart", !.mode = m, !.kw = TRUE])
                        /\ UNCHANGED <<selVars, ai>>
                    [] m = "aionly" ->
                        /\ Set(k, [srch[k] EXCEPT !.pc = "aiWait", !.mode = m, !.sem = TRUE])
                        /\ ai' = [ai EXCEPT ![k].pc = "session"]
                        /\ UNCHANGED selVars
                    [] m = "hybrid" ->
                        /\ Set(k, [srch[k] EXCEPT !.pc = "hyLex", !.mode = m, !.kw = TRUE,
                                                  !.lex = TRUE, !.sem = TRUE,
                                                  !.fb = LexResult[q].ids])
                        /\ tabSelectionReasons' = LexResult[q].reasons
                        /\ tabSelectionScores' = LexResult[q].scores
                        /\ ai' = [ai EXCEPT ![k].pc = "session"]
    /\ UNCHANGED <<flagVars, ctlVars, aiSearchSession, tabResultSources, histVars, resultsUl,
                   status, endDisabled, nextSearch, cont, endVars, inputEmpty, fnVars>>

\* Hashtag branch after performTagSearch stored its reasons: every result
\* is marked 'keyword'.
TagSources(k) ==
    /\ srch[k].pc = "tagSrc"
    /\ tabResultSources' = Labelled(srch[k].results, "keyword")
    /\ Set(k, [srch[k] EXCEPT !.pc = "selRet", !.ret = srch[k].results,
                              !.srcW = Labelled(srch[k].results, "keyword")])
    /\ UNCHANGED <<flagVars, ctlVars, aiSearchSession, selVars, histVars, busyVars, resultsUl,
                   status, endDisabled, nextSearch, ai, cont, endVars, inputEmpty, fnVars>>

\* The last storage write of the reconciler resolved: it returns and
\* handleSearch resumes.
SelectReturns(k) ==
    /\ srch[k].pc = "selRet"
    /\ Resume(k, srch[k])
    /\ UNCHANGED <<flagVars, ctlVars, aiSearchSession, tabResultSources, selVars, histVars,
                   resultsUl, status, endDisabled, nextSearch, ai, cont, endVars, inputEmpty,
                   fnVars>>

(***************************************************************************)
(* Progressive (aggressive) branch                                         *)
(***************************************************************************)

\* What the progressive loop does with one tab: whether the quick pass
\* pushes it, whether the content pass does, and the reason and score the
\* loop records for it.
AggEntryOf(quick, content, min, s, fullText, words) ==
    [quickHit |-> quick >= min, contentHit |-> content >= min,
     reason |-> AggReason(s, fullText, words, quick < min),
     score |-> IF quick >= min THEN quick ELSE content]
AggEntry(s, fullText, words) ==
    AggEntryOf(QuickScore(s, words), ContentScore(s, fullText, words), minScore(words),
               s, fullText, words)

\* Per query and tab, in enumeration order.
Progressive ==
    [q \in Queries |-> [i \in 1..Len(Tabs) |->
        AggEntry(Summaries[i], Tabs[i].fullText, Keywords[q])]]

QuickHit(i, q) == Progressive[q][i].quickHit
ContentHit(i, q) == Progressive[q][i].contentHit

\* The position of a tab id in the enumeration.
TabIndex(id) == CHOOSE j \in 1..Len(Tabs) : Tabs[j].id = id

\* reasonsMap and scoresMap of the progressive loop for the ids pushed so far.
AggReasons(res, q) == [id \in Range(res) |-> Progressive[q][TabIndex(id)].reason]
AggScores(res, q) == [id \in Range(res) |-> Progressive[q][TabIndex(id)].score]

\* results.push(tab.id); the variant that puts the id first comes first.
pushResultFirst(results, id) == <<id>> \o results
pushResult(results, id) == Append(results, id)

\* The loop from the top of iteration i to its next await: the abort
\* check (which breaks out of the loop), the quick pass, and the
\* 'continue' over tabs that are neither matched nor scriptable.  After
\* the loop the final status is set and the final storage write issued.
RECURSIVE AggRun(_, _, _, _, _, _)
AggRun(k, i, res, q, ab, st) ==
    IF i > Len(Tabs) \/ ab
    THEN [pc |-> "aggFinal", i |-> i, results |-> res, write |-> TRUE,
          status |-> Status("FoundAll", Len(res), k)]
    ELSE IF QuickHit(i, q)
    THEN [pc |-> "aggSrc", i |-> i, results |-> pushResult(res, Tabs[i].id), write |-> TRUE,
          status |-> st]
    ELSE IF isScriptableUrl(Tabs[i].url)
    THEN [pc |-> "aggContent", i |-> i, results |-> res, write |-> FALSE,
          status |-> Status("Scanning", i, k)]
    ELSE AggRun(k, i + 1, res, q, ab, st)

\* Applies the outcome of AggRun.
AggApply(k, r) ==
    /\ Set(k, [srch[k] EXCEPT !.pc = r.pc, !.i = r.i, !.results = r.results])
    /\ status' = r.status
    /\ IF r.write
       THEN /\ tabSelectionReasons' = AggReasons(r.results, srch[k].q)
            /\ tabSelectionScores' = AggScores(r.results, srch[k].q)
       ELSE UNCHANGED <<tabSelectionReasons, tabSelectionScores>>

aggFrame == <<flagVars, activeSearchController, aborted, cancelled, aiSearchSession,
              isSearching, searchHistory, historyItems, searchDisabled, endDisabled, endHidden,
              chipsDisabled, nextSearch, ai, cont, endc, endCount, clearTimers, answers,
              inputEmpty, fnVars>>

\* After chrome.tabs.query resolved: the '0/N tabs searched' status and
\* the first iterations.
AggStart(k) ==
    /\ srch[k].pc = "aggStart"
    /\ AggApply(k, AggRun(k, 1, <<>>, srch[k].q, k \in aborted, Status("Progress", 0, k)))
    /\ UNCHANGED <<aggFrame, tabResultSources, resultsUl>>

\* After the reasons and scores of a pushed tab were stored: the results
\* so far are marked 'keyword'.
AggSources(k) ==
    /\ srch[k].pc = "aggSrc"
    /\ tabResultSources' = Labelled(srch[k].results, "keyword")
    /\ Set(k, [srch[k] EXCEPT !.pc = "aggRender",
                              !.srcW = Labelled(srch[k].results, "keyword")])
    /\ UNCHANGED <<aggFrame, tabSelectionReasons, tabSelectionScores, resultsUl, status>>

\* After the tab query: the partial result list is rendered, the progress
\* status set, and the loop goes on with the next tab.  (The
\* every-tenth-tab progress message needs ten tabs.)
AggRender(k) ==
    /\ srch[k].pc = "aggRender"
    /\ resultsUl' = renderResultsList(srch[k].results)
    /\ AggApply(k, AggRun(k, srch[k].i + 1, srch[k].results, srch[k].q, k \in aborted,
                          Status("AggrFound", Len(srch[k].results), k)))
    /\ UNCHANGED <<aggFrame, tabResultSources>>

\* After extractFullPageText: the content pass over the tab's page text.
AggContent(k) ==
    /\ srch[k].pc = "aggContent"
    /\ LET i == srch[k].i
           q == srch[k].q
       IN IF ContentHit(i, q)
          THEN /\ Set(k, [srch[k] EXCEPT !.pc = "aggSrc",
                                         !.results = pushResult(srch[k].results, Tabs[i].id)])
               /\ tabSelectionReasons' = AggReasons(pushResult(srch[k].results, Tabs[i].id), q)
               /\ tabSelectionScores' = AggScores(pushResult(srch[k].results, Tabs[i].id), q)
               /\ UNCHANGED status
          ELSE AggApply(k, AggRun(k, i + 1, srch[k].results, q, k \in aborted, status))
    /\ UNCHANGED <<aggFrame, tabResultSources, resultsUl>>

\* After the final reasons and scores were stored: the final 'keyword'
\* marks, then the return.
AggFinalSources(k) ==
    /\ srch[k].pc = "aggFinal"
    /\ tabResultSources' = Labelled(srch[k].results, "keyword")
    /\ Set(k, [srch[k] EXCEPT !.pc = "selRet", !.ret = srch[k].results,
                              !.srcW = Labelled(srch[k].results, "keyword")])
    /\ UNCHANGED <<aggFrame, tabSelectionReasons, tabSelectionScores, resultsUl, status>>

(***************************************************************************)
(* Hybrid and AI-only branches                                             *)
(***************************************************************************)

\* The label given to results of the semantic scorer.
SemanticLabelKeyword == "keyword"
SemanticLabel == "ai"

\* Whether a list of the semantic scorer counts as a result
\* (idsFromAI && idsFromAI.length).
HasSemanticResultsAny(ids) == TRUE
HasSemanticResults(ids) == Len(ids) > 0

\* The reconciler resumes on the semantic scorer's list (AI-only mode, or
\* hybrid mode without lexical results): a non-empty list is marked 'ai'
\* and returned after the write; an empty one is returned at once in
\* AI-only mode and after the onboarding read in hybrid mode.
Awaited(k, rec, ids) ==
    IF HasSemanticResults(ids)
    THEN /\ tabResultSources' = Labelled(ids, SemanticLabel)
         /\ Set(k, [rec EXCEPT !.pc = "selRet", !.ret = ids,
                               !.srcW = Labelled(ids, SemanticLabel)])
         /\ UNCHANGED busyVars
    ELSE IF rec.mode = "aionly"
    THEN /\ Resume(k, [rec EXCEPT !.ret = <<>>])
         /\ UNCHANGED tabResultSources
    ELSE /\ Set(k, [rec EXCEPT !.pc = "selRet", !.ret = <<>>])
         /\ UNCHANGED <<tabResultSources, busyVars>>

\* The then-callback starts on the semantic scorer's list: nothing happens
\* when the signal is aborted or the list is empty; otherwise the stored
\* scores are read.
ReplaceStart(k, ids) ==
    [pc |-> IF k \notin aborted /\ HasSemanticResults(ids) THEN "sources" ELSE "done",
     snap |-> NoSession]

\* After the lexical scorer resolved: the abort check, then either the
\* provisional results are marked 'keyword', or (no lexical result) the
\* reconciler awaits the semantic scorer.
HybridAfterLexical(k) ==
    /\ srch[k].pc = "hyLex"
    /\ IF k \in aborted
       THEN /\ Resume(k, [srch[k] EXCEPT !.ret = <<>>])
            /\ UNCHANGED tabResultSources
       ELSE IF Len(srch[k].fb) > 0
       THEN /\ tabResultSources' = Labelled(srch[k].fb, "keyword")
            /\ Set(k, [srch[k] EXCEPT !.pc = "hyAttach",
                                      !.srcW = Labelled(srch[k].fb, "keyword")])
            /\ UNCHANGED busyVars
       ELSE IF ai[k].pc = "done"
       THEN Awaited(k, srch[k], ai[k].res)
       ELSE /\ Set(k, [srch[k] EXCEPT !.pc = "aiWait"])
            /\ UNCHANGED <<tabResultSources, busyVars>>
    /\ UNCHANGED <<flagVars, ctlVars, aiSearchSession, selVars, histVars, resultsUl, status,
                   endDisabled, nextSearch, ai, cont, endVars, inputEmpty, fnVars>>

\* After the 'keyword' marks were stored: the then-callback is attached
\* to the semantic scorer's promise (and starts if the promise is settled)
\* and the provisional results are returned to handleSearch.
HybridAttach(k) ==
    /\ srch[k].pc = "hyAttach"
    /\ cont' = [cont EXCEPT ![k] = IF ai[k].pc = "done" THEN ReplaceStart(k, ai[k].res)
                                   ELSE [pc |-> "armed", snap |-> NoSession]]
    /\ Resume(k, [srch[k] EXCEPT !.ret = srch[k].fb])
    /\ UNCHANGED <<flagVars, ctlVars, aiSearchSession, tabResultSources, selVars, histVars,
                   resultsUl, status, endDisabled, nextSearch, ai, endVars, inputEmpty, fnVars>>

(***************************************************************************)
(* tryOnDeviceSelectFromSummaries                                          *)
(***************************************************************************)

\* The reasons and scores the semantic scorer stores for its results
\* (sorted by relevance: the score falls with the position).
SemReasons(ids) == [id \in Range(ids) |-> [kind |-> "ai", words |-> <<>>, fields |-> <<>>]]
SemScores(ids) ==
    [id \in Range(ids) |-> 10 - (CHOOSE i \in 1..Len(ids) : ids[i] = id)]

\* The semantic scorer returns ids: whoever waits for its promise (the
\* reconciler, or the then-callback) resumes.
SemanticReturns(k, rec, ids) ==
    /\ ai' = [ai EXCEPT ![k] = [IdleAI EXCEPT !.pc = "done", !.res = ids]]
    /\ IF rec.pc = "aiWait"
       THEN Awaited(k, rec, ids) /\ UNCHANGED cont
       ELSE /\ Set(k, rec)
            /\ cont' = [cont EXCEPT ![k] = IF @.pc = "armed" THEN ReplaceStart(k, ids) ELSE @]
            /\ UNCHANGED <<tabResultSources, busyVars>>

aiFrame == <<flagVars, ctlVars, aiSearchSession, histVars, resultsUl, status, endDisabled,
             nextSearch, endc, endCount, clearTimers, inputEmpty, fnVars>>

\* getOnDeviceSession resolved: without a session, or with an aborted
\* signal, the scorer returns []; otherwise the prompt is sent.
SemanticSession(k, o) ==
    /\ ai[k].pc = "session"
    /\ IF o = "nosession" \/ k \in aborted
       THEN SemanticReturns(k, srch[k], <<>>)
       ELSE /\ ai' = [ai EXCEPT ![k].pc = "prompt"]
            /\ UNCHANGED <<srch, cont, tabResultSources, busyVars>>
    /\ UNCHANGED <<aiFrame, selVars, answers>>

\* The prompt resolved with o: a failure (null, unparsable text, a thrown
\* error) or the list that survives validation.  An aborted signal and
\* every failure return []; otherwise the stored reasons are read.  (The
\* model answers with a valid list at most MaxAnswers times.)
SemanticPrompt(k, o) ==
    /\ ai[k].pc = "prompt"
    /\ IF o \in PromptFailures \/ k \in aborted
       THEN SemanticReturns(k, srch[k], <<>>) /\ UNCHANGED answers
       ELSE /\ answers < MaxAnswers
            /\ answers' = answers + 1
            /\ ai' = [ai EXCEPT ![k] = [@ EXCEPT !.pc = "merge", !.out = o,
                                                 !.reasons = tabSelectionReasons,
                                                 !.scores = tabSelectionScores]]
            /\ Set(k, [srch[k] EXCEPT !.kw = TRUE])
            /\ UNCHANGED <<cont, tabResultSources, busyVars>>
    /\ UNCHANGED <<aiFrame, selVars>>

\* The stored reasons were read: the merged reasons and scores are stored.
SemanticMerge(k) ==
    /\ ai[k].pc = "merge"
    /\ tabSelectionReasons' = Merge(ai[k].reasons, SemReasons(ai[k].out))
    /\ tabSelectionScores' = Merge(ai[k].scores, SemScores(ai[k].out))
    /\ ai' = [ai EXCEPT ![k].pc = "ret"]
    /\ UNCHANGED <<aiFrame, srch, cont, tabResultSources, busyVars, answers>>

\* The merged reasons were stored: the scorer returns its ids.
SemanticDone(k) ==
    /\ ai[k].pc = "ret"
    /\ SemanticReturns(k, srch[k], ai[k].out)
    /\ UNCHANGED <<aiFrame, selVars, answers>>

(***************************************************************************)
(* The aiPromise.then callback of the hybrid branch                        *)
(***************************************************************************)

contFrame == <<flagVars, ctlVars, selVars, histVars, busyVars, endDisabled, nextSearch, ai,
               endVars, inputEmpty, fnVars>>

\* The stored scores were read: every semantic result is marked 'ai'.
ReplaceSources(k) ==
    /\ cont[k].pc = "sources"
    /\ tabResultSources' = Labelled(ai[k].res, SemanticLabel)
    /\ Set(k, [srch[k] EXCEPT !.srcW = Labelled(ai[k].res, SemanticLabel)])
    /\ cont' = [cont EXCEPT ![k].pc = IF ai[k].res # srch[k].fb THEN "render" ELSE "same"]
    /\ UNCHANGED <<contFrame, aiSearchSession, resultsUl, status>>

\* The semantic list equals the provisional one: only the status changes.
ReplaceSame(k) ==
    /\ cont[k].pc = "same"
    /\ status' = Status("Found", Len(ai[k].res), k)
    /\ cont' = [cont EXCEPT ![k].pc = "done"]
    /\ UNCHANGED <<contFrame, srch, aiSearchSession, tabResultSources, resultsUl>>

\* The semantic list differs: after the tab query it is rendered and the
\* session is read.
ReplaceRender(k) ==
    /\ cont[k].pc = "render"
    /\ resultsUl' = renderResultsList(ai[k].res)
    /\ cont' = [cont EXCEPT ![k] = [pc |-> "session", snap |-> aiSearchSession]]
    /\ UNCHANGED <<contFrame, srch, aiSearchSession, tabResultSources, status>>

\* The session was read: if there is one its tabIds are replaced, else
\* the final status is set at once.
ReplaceSession(k) ==
    /\ cont[k].pc = "session"
    /\ IF cont[k].snap.present
       THEN /\ aiSearchSession' = [cont[k].snap EXCEPT !.tabIds = ai[k].res]
            /\ cont' = [cont EXCEPT ![k].pc = "status"]
            /\ UNCHANGED status
       ELSE /\ status' = Status("Found", Len(ai[k].res), k)
            /\ cont' = [cont EXCEPT ![k] = [pc |-> "done", snap |-> NoSession]]
            /\ UNCHANGED aiSearchSession
    /\ UNCHANGED <<contFrame, srch, tabResultSources, resultsUl>>

\* The session was updated: the final status.
ReplaceStatus(k) ==
    /\ cont[k].pc = "status"
    /\ status' = Status("Found", Len(ai[k].res), k)
    /\ cont' = [cont EXCEPT ![k] = [pc |-> "done", snap |-> NoSession]]
    /\ UNCHANGED <<contFrame, srch, aiSearchSession, tabResultSources, resultsUl>>

(***************************************************************************)
(* handleSearch after the reconciler returned                              *)
(***************************************************************************)

\* The number of history entries kept and shown.
HistoryLimit == 5

Take(seq, n) == SubSeq(seq, 1, IF Len(seq) < n THEN Len(seq) ELSE n)

\* The array logSearchHistory stores: the query first, older entries of
\* the same query removed, at most five entries.
Logged(arr, q) == Take(<<q>> \o SelectSeq(arr, LAMBDA x : x # q), HistoryLimit)

postFrame == <<flagVars, activeSearchController, aborted, cancelled, nextSearch, ai, cont,
               endc, endCount, clearTimers, answers, inputEmpty, fnVars>>

\* logSearchHistory stores the updated history.
LogHistoryWrite(k) ==
    /\ srch[k].pc = "logWrite"
    /\ searchHistory' = Logged(srch[k].histSnap, srch[k].q)
    /\ Set(k, [srch[k] EXCEPT !.pc = "histLoad"])
    /\ UNCHANGED <<postFrame, aiSearchSession, tabResultSources, tabSelectionReasons,
                   tabSelectionScores, isSearching, uiVars>>

\* loadHistory reads the stored history.
LoadHistoryRead(k) ==
    /\ srch[k].pc = "histLoad"
    /\ Set(k, [srch[k] EXCEPT !.pc = "show", !.histSnap = searchHistory])
    /\ UNCHANGED <<postFrame, storeVars, uiVars>>

\* The chips are rebuilt; then either 'No matching tabs found' and the
\* session is removed, or the results are rendered.
ShowResults(k) ==
    /\ srch[k].pc = "show"
    /\ historyItems' = Take(srch[k].histSnap, HistoryLimit)
    /\ chipsDisabled' = FALSE
    /\ IF Len(srch[k].ret) = 0
       THEN /\ status' = Status("NoMatch", 0, k)
            /\ resultsUl' = <<>>
            /\ endHidden' = TRUE
            /\ aiSearchSession' = NoSession
            /\ Set(k, [srch[k] EXCEPT !.pc = "emptyFin", !.histSnap = <<>>])
       ELSE /\ resultsUl' = renderResultsList(srch[k].ret)
            /\ Set(k, [srch[k] EXCEPT !.pc = "persist", !.histSnap = <<>>])
            /\ UNCHANGED <<status, aiSearchSession, endHidden>>
    /\ UNCHANGED <<postFrame, tabResultSources, tabSelectionReasons,
                   tabSelectionScores, isSearching, searchHistory, searchDisabled, endDisabled>>

\* The empty-result path returns: the finally block.
EmptyReturn(k) ==
    /\ srch[k].pc = "emptyFin"
    /\ Finally(k, srch[k])
    /\ UNCHANGED <<postFrame, aiSearchSession, tabResultSources, tabSelectionReasons,
                   tabSelectionScores, searchHistory, historyItems, resultsUl, status,
                   endDisabled>>

\* The session record is persisted.
PersistSession(k) ==
    /\ srch[k].pc = "persist"
    /\ aiSearchSession' = buildSessionRecord(srch[k].ret, srch[k].q)
    /\ Set(k, [srch[k] EXCEPT !.pc = "enable"])
    /\ UNCHANGED <<postFrame, tabResultSources, tabSelectionReasons,
                   tabSelectionScores, isSearching, searchHistory, uiVars>>

\* The status texts that contain 'tab' or 'search': all but the empty
\* one and 'Searching with AI...'.
MentionsSearch(kind) == kind \notin {"", "SearchingAI"}

\* The end button is enabled, and updateClearSearchButton shows it when
\* results are rendered or the status mentions a search; updateGroupButton
\* reads the session.
EnableEnd(k) ==
    /\ srch[k].pc = "enable"
    /\ endDisabled' = FALSE
    /\ endHidden' = ~(resultsUl # <<>> \/ MentionsSearch(status.kind))
    /\ Set(k, [srch[k] EXCEPT !.pc = "srcRead"])
    /\ UNCHANGED <<postFrame, storeVars, historyItems, resultsUl, status,
                   searchDisabled, chipsDisabled>>

\* The stored result sources are read.
ReadSources(k) ==
    /\ srch[k].pc = "srcRead"
    /\ Set(k, [srch[k] EXCEPT !.pc = "final", !.srcSnap = tabResultSources])
    /\ UNCHANGED <<postFrame, storeVars, uiVars>>

\* The ids of a list that carry the given label in a sources map.
WithLabel(ids, src, label) == SelectSeq(ids, LAMBDA id : id \in DOMAIN src /\ src[id] = label)

\* The status chosen from the sources read: a mixed count, the
\* provisional 'Searching with AI...', or the final count.
FinalStatus(k, ids, src) ==
    IF Len(WithLabel(ids, src, "ai")) > 0 /\ Len(WithLabel(ids, src, "keyword")) > 0
    THEN Status("FoundMixed", Len(ids), k)
    ELSE IF Len(WithLabel(ids, src, "keyword")) > 0
    THEN Status("SearchingAI", 0, k)
    ELSE Status("Found", Len(ids), k)

\* The final status, then the finally block.
SetFinalStatus(k) ==
    /\ srch[k].pc = "final"
    /\ status' = FinalStatus(k, srch[k].ret, srch[k].srcSnap)
    /\ Finally(k, [srch[k] EXCEPT !.srcSnap = EmptyMap])
    /\ UNCHANGED <<postFrame, aiSearchSession, tabResultSources, tabSelectionReasons,
                   tabSelectionScores, searchHistory, historyItems, resultsUl, endDisabled>>

\* The isSearching flag was removed: the controller reference is cleared.
ClearController(k) ==
    /\ srch[k].pc = "finNull"
    /\ activeSearchController' = 0
    /\ Set(k, [srch[k] EXCEPT !.pc = "done"])
    /\ UNCHANGED <<flagVars, aborted, cancelled, storeVars, uiVars, nextSearch, ai, cont,
                   endc, endCount, clearTimers, answers, inputEmpty, fnVars>>

(***************************************************************************)
(* handleEndSearch (the 'Clear search' button)                             *)
(***************************************************************************)

\* The searches whose handleSearch has started and not yet returned.
Running == {k \in Searches : srch[k].pc \notin {"idle", "done"}}

\* The click on the end button, which is enabled and shown (the user can
\* show it by typing whenever the input is enabled): setBusy(true), the
\* 'Clearing' status, the abort of the controller held (if any), and the
\* read of the session.
EndSearchClick ==
    /\ ~endDisabled
    /\ ~endHidden \/ ~searchDisabled
    /\ endc.pc = "idle"
    /\ endCount < MaxEnds
    /\ endCount' = endCount + 1
    /\ searchDisabled' = TRUE
    /\ endDisabled' = TRUE
    /\ chipsDisabled' = TRUE
    /\ status' = Status("Clearing", 0, 0)
    /\ aborted' = IF activeSearchController # 0 THEN aborted \cup {activeSearchController}
                  ELSE aborted
    /\ activeSearchController' = 0
    /\ cancelled' = cancelled \cup Running
    /\ endc' = [pc |-> "got", snap |-> aiSearchSession]
    /\ UNCHANGED <<flagVars, storeVars, historyItems, resultsUl, endHidden, nextSearch, srch,
                   ai, cont, clearTimers, answers, inputEmpty, fnVars>>

\* The session was read: with a session the highlights are cleared
\* first, without one the removal is issued at once.
EndSearchGot ==
    /\ endc.pc = "got"
    /\ IF endc.snap.present
       THEN endc' = [endc EXCEPT !.pc = "remove"] /\ UNCHANGED aiSearchSession
       ELSE endc' = [endc EXCEPT !.pc = "reset"] /\ aiSearchSession' = NoSession
    /\ UNCHANGED <<flagVars, activeSearchController, aborted, cancelled, tabResultSources,
                   tabSelectionReasons, tabSelectionScores, isSearching, searchHistory,
                   uiVars, nextSearch, srch, ai, cont, endCount, clearTimers, answers, inputEmpty,
                   fnVars>>

\* The variant of the removal that clears today's history as well.
EndSearchRemoveHistoryToo ==
    /\ endc.pc = "remove"
    /\ aiSearchSession' = NoSession
    /\ searchHistory' = <<>>
    /\ endc' = [endc EXCEPT !.pc = "reset"]
    /\ UNCHANGED <<flagVars, activeSearchController, aborted, cancelled, tabResultSources,
                   tabSelectionReasons, tabSelectionScores, isSearching,
                   uiVars, nextSearch, srch, ai, cont, endCount, clearTimers, answers, inputEmpty,
                   fnVars>>

\* The session and the scroll position are removed.
EndSearchRemove ==
    /\ endc.pc = "remove"
    /\ aiSearchSession' = NoSession
    /\ endc' = [endc EXCEPT !.pc = "reset"]
    /\ UNCHANGED <<flagVars, activeSearchController, aborted, cancelled, tabResultSources,
                   tabSelectionReasons, tabSelectionScores, isSearching, searchHistory,
                   uiVars, nextSearch, srch, ai, cont, endCount, clearTimers, answers, inputEmpty,
                   fnVars>>

\* The UI is reset, the 'Search cleared' status set and its timer
\* started; the finally block calls setBusy(false).
EndSearchReset ==
    /\ endc.pc = "reset"
    /\ resultsUl' = <<>>
    /\ endDisabled' = TRUE
    /\ status' = Status("Cleared", 0, 0)
    /\ clearTimers' = clearTimers + 1
    /\ searchDisabled' = FALSE
    /\ chipsDisabled' = FALSE
    /\ inputEmpty' = TRUE
    /\ endHidden' = TRUE
    /\ endc' = IdleEnd
    /\ UNCHANGED <<flagVars, activeSearchController, aborted, cancelled, storeVars,
                   historyItems, nextSearch, srch, ai, cont, endCount, answers, fnVars>>

\* setTimeout(() => setStatus('', ''), 2000) fires.
ClearStatusTimer ==
    /\ clearTimers > 0
    /\ clearTimers' = clearTimers - 1
    /\ status' = NoStatus
    /\ UNCHANGED <<flagVars, activeSearchController, aborted, cancelled, storeVars,
                   historyItems, resultsUl, searchDisabled, endDisabled, endHidden,
                   chipsDisabled, nextSearch, srch, ai, cont, endc, endCount, answers,
                   inputEmpty, fnVars>>

(***************************************************************************)
(* Specification of the popup                                              *)
(***************************************************************************)

Next ==
    \/ SearchEmptyQuery
    \/ \E q \in Queries, viaChip \in BOOLEAN : StartSearch(q, viaChip)
    \/ \E k \in Searches : Dispatch(k)
    \/ \E k \in Searches : TagSources(k)
    \/ \E k \in Searches : SelectReturns(k)
    \/ \E k \in Searches : AggStart(k)
    \/ \E k \in Searches : AggSources(k)
    \/ \E k \in Searches : AggRender(k)
    \/ \E k \in Searches : AggContent(k)
    \/ \E k \in Searches : AggFinalSources(k)
    \/ \E k \in Searches : HybridAfterLexical(k)
    \/ \E k \in Searches : HybridAttach(k)
    \/ \E k \in Searches, o \in SessionOutcomes : SemanticSession(k, o)
    \/ \E k \in Searches, o \in PromptFailures \cup SemLists : SemanticPrompt(k, o)
    \/ \E k \in Searches : SemanticMerge(k)
    \/ \E k \in Searches : SemanticDone(k)
    \/ \E k \in Searches : ReplaceSources(k)
    \/ \E k \in Searches : ReplaceSame(k)
    \/ \E k \in Searches : ReplaceRender(k)
    \/ \E k \in Searches : ReplaceSession(k)
    \/ \E k \in Searches : ReplaceStatus(k)
    \/ \E k \in Searches : LogHistoryWrite(k)
    \/ \E k \in Searches : LoadHistoryRead(k)
    \/ \E k \in Searches : ShowResults(k)
    \/ \E k \in Searches : EmptyReturn(k)
    \/ \E k \in Searches : PersistSession(k)
    \/ \E k \in Searches : EnableEnd(k)
    \/ \E k \in Searches : ReadSources(k)
    \/ \E k \in Searches : SetFinalStatus(k)
    \/ \E k \in Searches : ClearController(k)
    \/ EndSearchClick
    \/ EndSearchGot
    \/ EndSearchRemove
    \/ EndSearchReset
    \/ ClearStatusTimer

Spec == Init /\ [][Next]_vars

(***************************************************************************)
(* Specification of the keyword extractor                                  *)
(***************************************************************************)

\* The pieces queries are made of: separators, stop words, short words,
\* and words that stay, in mixed case.
Pieces == {<<" ">>, <<"\t">>, <<"I">>, <<"a", "m">>, <<"T", "a", "b">>, <<"g", "i", "t">>, <<"M", "L">>, <<"t", "h", "e">>, <<"D", "o", "c", "s">>}

\* The query of the README's example.
ExampleQuery == <<"I", " ", "a", "m", " ", "l", "o", "o", "k", "i", "n", "g", " ", "f", "o", "r", " ", "a", " ", "t", "a", "b", " ", "a", "b", "o", "u", "t", " ", "J", "a", "v", "a", "S", "c", "r", "i", "p", "t", " ", "t", "u", "t", "o", "r", "i", "a", "l", "s">>

\* The concatenations of at most n pieces.
RECURSIVE PieceStrings(_)
PieceStrings(n) ==
    IF n = 0 THEN {<<>>}
    ELSE LET shorter == PieceStrings(n - 1)
         IN shorter \cup {s \o p : s \in shorter, p \in Pieces}

KeywordQueries == PieceStrings(MaxPieces) \cup {ExampleQuery}

\* A call of extractKeywords(query) is about to be made.
InitKeywords ==
    /\ InitPopup(FALSE, FALSE, FALSE)
    /\ fnIn \in [op : {"extractKeywords"}, arg : KeywordQueries]
    /\ fnOut = NoResult

\* extractKeywords(query) returns.
CallExtractKeywords ==
    /\ fnIn.op = "extractKeywords"
    /\ ~fnOut.done
    /\ fnOut' = [done |-> TRUE, value |-> extractKeywords(fnIn.arg)]
    /\ UNCHANGED <<flagVars, ctlVars, aiSearchSession, tabResultSources, selVars, histVars,
                   busyVars, resultsUl, status, endDisabled, nextSearch, srch, ai, cont,
                   endVars, inputEmpty, fnIn>>

NextKeywords == CallExtractKeywords

SpecKeywords == InitKeywords /\ [][NextKeywords]_vars


(***************************************************************************)
(* Specification of the tag search                                         *)
(***************************************************************************)

\* The most hashtags a query of this specification carries.
MaxQueryTags == 2

\* The tags documents carry and queries ask for, in mixed case.
TagWords == {<<"j", "s">>, <<"j", "a", "v", "a">>, <<"J", "a", "v", "a", "S", "c", "r", "i", "p", "t">>, <<"w", "e", "b">>, <<"W", "e", "b", "D", "e", "v">>, <<"g", "i", "t", "h", "u", "b">>,
             <<"d", "e", "v", "e", "l", "o", "p", "m", "e", "n", "t">>}

\* The tag lists of a document: one tag, or one of a few pairs.
TagLists ==
    {<<t>> : t \in TagWords} \cup
    {<<<<"g", "i", "t", "h", "u", "b">>, <<"d", "e", "v", "e", "l", "o", "p", "m", "e", "n", "t">>>>, <<<<"w", "e", "b">>, <<"j", "s">>>>, <<>>}

\* The hashtag lists of at most n tags.
RECURSIVE HashtagLists(_)
HashtagLists(n) ==
    IF n = 0 THEN {<<>>}
    ELSE LET shorter == HashtagLists(n - 1)
         IN shorter \cup {Append(s, t) : s \in shorter, t \in TagWords}

\* The query a user types for a list of hashtags: "#a #b".
HashtagQuery(tags) == join([i \in 1..Len(tags) |-> <<"#">> \o tags[i]], <<" ">>)

\* The summaries of two open tabs with the given tag lists.
TaggedSummaries(lists) == [i \in 1..Len(lists) |-> [id |-> i, tags |-> lists[i]]]

\* The result of performTagSearch: the ids it returns and the scores it
\* stores.
TagSearch(summaries, query) ==
    performTagSearch(summaries, parseHashtagQuery(query).tags)

\* A hashtag query is about to be answered over two tagged tabs.
InitTags ==
    /\ InitPopup(FALSE, FALSE, FALSE)
    /\ fnIn \in [op : {"performTagSearch"},
                 arg : [lists : TagLists \X TagLists,
                        tags : HashtagLists(MaxQueryTags) \ {<<>>}]]
    /\ fnOut = NoResult

\* performTagSearch(summaries, parseHashtagQuery(query).tags) returns.
CallTagSearch ==
    /\ fnIn.op = "performTagSearch"
    /\ ~fnOut.done
    /\ fnOut' = [done |-> TRUE,
                 value |-> TagSearch(TaggedSummaries(fnIn.arg.lists),
                                     HashtagQuery(fnIn.arg.tags))]
    /\ UNCHANGED <<flagVars, ctlVars, aiSearchSession, tabResultSources, selVars, histVars,
                   busyVars, resultsUl, status, endDisabled, nextSearch, srch, ai, cont,
                   endVars, inputEmpty, fnIn>>

NextTags == CallTagSearch

SpecTags == InitTags /\ [][NextTags]_vars

(***************************************************************************)
(* Specification of the lexical scorer                                     *)
(***************************************************************************)

\* The number of summaries a call of this specification scores.
LexDocs == 2

\* The summaries of the open tabs, each with the text of its page.
LexSummary ==
    [title : {<<"G", "i", "t", " ", "D", "o", "c", "s">>, <<"N", "e", "w", "s">>},
     tags : {<<>>, <<<<"G", "i", "t">>>>},
     summary : {<<>>, <<"T", "e", "s", "t", "i", "n", "g", " ", "s", "t", "a", "t", "u", "s">>},
     url : {Url(<<"w", "w", "w", ".", "g", "i", "t", ".", "i", "o">>, <<"/", "d", "o", "c", "s">>), Url(<<"n", "e", "w", "s", ".", "c", "o", "m">>, <<"/", "g", "i", "t", "-", "t", "e", "s", "t", "s">>),
            Url(<<"c", "h", "r", "o", "m", "e", "w", "e", "b", "s", "t", "o", "r", "e", ".", "g", "o", "o", "g", "l", "e", ".", "c", "o", "m">>, <<"/", "d", "e", "t", "a", "i", "l">>)},
     fullText : {<<>>, <<"G", "i", "t", " ", "t", "e", "s", "t", "s">>}]

\* The queries: one, two and three keywords, words with a suffix, a stop
\* word alone, and words too short to be scored.
LexQueries == {<<"g", "i", "t">>, <<"t", "e", "s", "t", "s">>, <<"u", "s", "e", "d">>, <<"G", "i", "t", " ", "t", "e", "s", "t", "i", "n", "g">>, <<"g", "i", "t", " ", "d", "o", "c", "s", " ", "n", "e", "w", "s">>,
               <<"t", "h", "e">>, <<"I", " ", "a", "m">>}

\* The summaries of a call: position i carries the id i.
WithIds(docs) ==
    [i \in 1..Len(docs) |->
        [id |-> i, title |-> docs[i].title, tags |-> docs[i].tags,
         summary |-> docs[i].summary, url |-> docs[i].url, fullText |-> docs[i].fullText]]

\* What a call of performFallbackSearch computes: the 'scored' array
\* before it is sorted, and the ids, reasons and scores that come out.
BatchCall(summaries, words) ==
    [scored |-> [i \in 1..Len(summaries) |-> BatchScore(summaries[i], words)],
     out |-> BatchSearch(summaries, words)]

\* The tabs of the progressive loop with their entries, and what a loop
\* that is not aborted pushes to results: the tabs that reach minScore in
\* the quick pass, and the scriptable ones that reach it with their content.
ProgressiveKept(summaries, entries) ==
    SelectSeq([i \in 1..Len(summaries) |->
                  [id |-> summaries[i].id, entry |-> entries[i],
                   scriptable |-> isScriptableUrl(summaries[i].url)]],
              LAMBDA x : x.entry.quickHit \/ (x.scriptable /\ x.entry.contentHit))
ProgressiveOutcome(kept) ==
    [ids |-> IdsOf(kept),
     scores |-> [id \in Range(IdsOf(kept)) |-> ById(kept, id).entry.score]]
ProgressiveSearch(summaries, words) ==
    ProgressiveOutcome(ProgressiveKept(summaries,
        [i \in 1..Len(summaries) |-> AggEntry(summaries[i], summaries[i].fullText, words)]))

\* A query is about to be scored over the summaries, in batch mode or by
\* the progressive loop.
InitLexical ==
    /\ InitPopup(FALSE, FALSE, FALSE)
    /\ fnIn \in [op : {"performFallbackSearch", "aggressiveSearch"},
                 arg : [docs : [1..LexDocs -> LexSummary], query : LexQueries]]
    /\ fnOut = NoResult

\* performFallbackSearch(summaries, query) returns.
CallFallbackSearch ==
    /\ fnIn.op = "performFallbackSearch"
    /\ ~fnOut.done
    /\ fnOut' = [done |-> TRUE,
                 value |-> BatchCall(WithIds(fnIn.arg.docs), extractKeywords(fnIn.arg.query))]
    /\ UNCHANGED <<flagVars, ctlVars, aiSearchSession, tabResultSources, selVars, histVars,
                   busyVars, resultsUl, status, endDisabled, nextSearch, srch, ai, cont,
                   endVars, inputEmpty, fnIn>>

\* The progressive loop of the aggressive branch runs to its end.
CallAggressiveSearch ==
    /\ fnIn.op = "aggressiveSearch"
    /\ ~fnOut.done
    /\ fnOut' = [done |-> TRUE,
                 value |-> ProgressiveSearch(WithIds(fnIn.arg.docs),
                                             extractKeywords(fnIn.arg.query))]
    /\ UNCHANGED <<flagVars, ctlVars, aiSearchSession, tabResultSources, selVars, histVars,
                   busyVars, resultsUl, status, endDisabled, nextSearch, srch, ai, cont,
                   endVars, inputEmpty, fnIn>>

NextLexical == CallFallbackSearch \/ CallAggressiveSearch

SpecLexical == InitLexical /\ [][NextLexical]_vars

(***************************************************************************)
(* The semantic scorer: prompt and validation of the model's response      *)
(***************************************************************************)

\* The decimal digits of a natural number.
RECURSIVE Decimal(_)
Decimal(n) ==
    IF n < 10 THEN <<<<"0", "1", "2", "3", "4", "5", "6", "7", "8", "9">>[n + 1]>>
    ELSE Decimal(n \div 10) \o Decimal(n % 10)

\* anonymousTabs: every summary with its positional ref 'tab<idx + 1>',
\* its real id, and defaults for a missing title and summary.
anonymousTabs(summaries) ==
    [i \in 1..Len(summaries) |->
        [ref |-> <<"t", "a", "b">> \o Decimal(i),
         id |-> summaries[i].id,
         title |-> IF summaries[i].title = <<>> THEN <<"U", "n", "t", "i", "t", "l", "e", "d">> ELSE summaries[i].title,
         summary |-> IF summaries[i].summary = <<>> THEN <<"N", "o", " ", "s", "u", "m", "m", "a", "r", "y">>
                     ELSE summaries[i].summary,
         tags |-> summaries[i].tags,
         url |-> summaries[i].url.href]]

\* refToTab.get(ref) is defined, and its value.
hasRef(tabs, ref) == \E i \in 1..Len(tabs) : tabs[i].ref = ref
refToTab(tabs, ref) == tabs[CHOOSE i \in 1..Len(tabs) : tabs[i].ref = ref]

\* reason.match(/'([^']+)'/g), each match without its quotes: scanning
\* from the left, a quote followed by one or more characters that are no
\* quote and then a quote; the scan goes on behind the closing quote, or
\* at the next quote when there is no match at this one.
RECURSIVE quotedTexts(_, _)
quotedTexts(reason, i) ==
    IF i >= Len(reason) THEN <<>>
    ELSE IF reason[i] = "'" /\ reason[i + 1] # "'"
             /\ \E j \in (i + 2)..Len(reason) : reason[j] = "'"
    THEN LET j == CHOOSE k \in (i + 2)..Len(reason) :
                      reason[k] = "'" /\ \A m \in (i + 2)..(k - 1) : reason[m] # "'"
         IN <<SubSeq(reason, i + 1, j - 1)>> \o quotedTexts(reason, j + 1)
    ELSE IF \E p \in (i + 1)..Len(reason) : reason[p] = "'"
    THEN quotedTexts(reason, CHOOSE p \in (i + 1)..Len(reason) :
                                 reason[p] = "'" /\ \A m \in (i + 1)..(p - 1) : reason[m] # "'")
    ELSE <<>>

\* quoted.replace(/'/g, '').toLowerCase().trim()
cleanQuoted(quoted) == trim(toLowerCase(quoted))

\* Quoted texts shorter than this are skipped.
MinQuotedLen == 5

\* The quoted text occurs in the title, summary, url or joined tags of
\* the tab the candidate refers to.
matchesThisTab(tabData, clean) ==
    \/ includes(toLowerCase(tabData.title), clean)
    \/ includes(toLowerCase(tabData.summary), clean)
    \/ includes(toLowerCase(tabData.url), clean)
    \/ includes(tagsText(tabData), clean)

\* foundMatch: a quoted text of at least five characters matches the tab.
foundMatchIn(tabData, cleaned) ==
    \E i \in 1..Len(cleaned) :
        Len(cleaned[i]) >= MinQuotedLen /\ matchesThisTab(tabData, cleaned[i])
foundMatch(tabData, quoted) ==
    foundMatchIn(tabData, [i \in 1..Len(quoted) |-> cleanQuoted(quoted[i])])

\* The grounding check left out.
groundedUnchecked(tabData, quoted) == TRUE

\* The grounding check: a reason with quoted texts needs a match.
groundedIn(tabData, quoted) == quoted = <<>> \/ foundMatch(tabData, quoted)
grounded(tabData, reason) == groundedIn(tabData, quotedTexts(reason, 1))

\* The phrases of uncertainty, the same list in both passes.
uncertaintyPhrases == {
    <<"b", "u", "t", " ", "c", "o", "n", "t", "e", "x", "t", " ", "i", "s">>, <<"h", "o", "w", "e", "v", "e", "r">>, <<"b", "u", "t", " ", "i", "t">>, <<"a", "l", "t", "h", "o", "u", "g", "h">>,
    <<"n", "o", "t", " ", "d", "i", "r", "e", "c", "t", "l", "y">>, <<"n", "o", "t", " ", "e", "x", "a", "c", "t", "l", "y">>, <<"m", "i", "g", "h", "t", " ", "b", "e">>, <<"c", "o", "u", "l", "d", " ", "b", "e">>,
    <<"p", "o", "s", "s", "i", "b", "l", "y">>, <<"p", "e", "r", "h", "a", "p", "s">>, <<"m", "a", "y", " ", "b", "e", " ", "r", "e", "l", "a", "t", "e", "d">>, <<"s", "o", "m", "e", "w", "h", "a", "t", " ", "r", "e", "l", "a", "t", "e", "d">>,
    <<"l", "o", "o", "s", "e", "l", "y", " ", "r", "e", "l", "a", "t", "e", "d">>, <<"t", "a", "n", "g", "e", "n", "t", "i", "a", "l", "l", "y">>, <<"i", "n", "d", "i", "r", "e", "c", "t", "l", "y">>,
    <<"n", "o", "t", " ", "q", "u", "i", "t", "e">>, <<"n", "o", "t", " ", "r", "e", "a", "l", "l", "y">>, <<"u", "n", "c", "l", "e", "a", "r">>, <<"u", "n", "s", "u", "r", "e">>, <<"u", "n", "c", "e", "r", "t", "a", "i", "n">> }

\* The uncertainty test on the reason as the model wrote it.
hasUncertaintyAsWritten(reason) == \E p \in uncertaintyPhrases : includes(reason, p)

\* hasUncertainty: the lowercased reason contains a phrase of the list.
hasUncertainty(reason) == \E p \in uncertaintyPhrases : includes(toLowerCase(reason), p)

\* foundKeywords.length: the query keywords the lowercased reason mentions.
foundKeywords(reason, keywords) ==
    Len(SelectSeq(keywords, LAMBDA k : includes(toLowerCase(reason), toLowerCase(k))))

\* Reasons of at least this length count as detailed explanations.
DetailedReasonLen == 50

\* The coverage test without the length of the reason.
tooFewKeywordsAnyLength(reason, keywords, tenths) ==
    /\ Len(keywords) > 0
    /\ foundKeywords(reason, keywords) * 10 < tenths * Len(keywords)

\* keywordMatchRatio < tenths / 10 && reason.length < 50
tooFewKeywords(reason, keywords, tenths) ==
    /\ Len(keywords) > 0
    /\ foundKeywords(reason, keywords) * 10 < tenths * Len(keywords)
    /\ Len(reason) < DetailedReasonLen

\* The least relevanceScore and the least share of keywords (in tenths)
\* of the first and of the second pass.
FirstPassScore == 6
FirstPassTenths == 4
SecondPassScore == 4
SecondPassTenths == 3

\* What typeof gives for the three fields of a well-formed candidate.
WellTyped == [ref |-> "string", relevanceScore |-> "number", reason |-> "string"]

\* The basic validation without Number.isFinite(r.relevanceScore).
wellFormedAnyScore(r) ==
    /\ r.ref # <<>> /\ r.typeOf.ref = "string"
    /\ r.reason # <<>> /\ r.typeOf.reason = "string"

\* The basic validation: a ref that is a non-empty string, a finite
\* number as relevanceScore, a reason that is a non-empty string.
wellFormed(r) ==
    /\ r.ref # <<>> /\ r.typeOf.ref = "string"
    /\ r.typeOf.relevanceScore = "number"
    /\ r.reason # <<>> /\ r.typeOf.reason = "string"

\* The filter callback of a pass.
validResult(r, tabs, keywords, least, tenths) ==
    /\ wellFormed(r)
    /\ r.relevanceScore >= least
    /\ hasRef(tabs, r.ref)
    /\ grounded(refToTab(tabs, r.ref), r.reason)
    /\ ~hasUncertainty(r.reason)
    /\ ~tooFewKeywords(r.reason, keywords, tenths)

\* sort((a, b) => b.relevanceScore - a.relevanceScore): stable.
RECURSIVE sortByRelevance(_)
sortByRelevance(xs) ==
    IF xs = <<>> THEN <<>>
    ELSE LET r == sortByRelevance(SubSeq(xs, 1, Len(xs) - 1))
             x == xs[Len(xs)]
             k == Cardinality({i \in 1..Len(r) : r[i].relevanceScore >= x.relevanceScore})
         IN SubSeq(r, 1, k) \o <<x>> \o SubSeq(r, k + 1, Len(r))

\* One pass over parsed.results.
validationPass(results, tabs, keywords, least, tenths) ==
    sortByRelevance(SelectSeq(results, LAMBDA r : validResult(r, tabs, keywords, least, tenths)))

\* The second pass whatever the first pass kept.
secondAlways(first, results, tabs, keywords) ==
    validationPass(results, tabs, keywords, SecondPassScore, SecondPassTenths)

\* validResults: the first pass, or the second when the first keeps nothing.
secondIfEmpty(first, results, tabs, keywords) ==
    IF first = <<>>
    THEN validationPass(results, tabs, keywords, SecondPassScore, SecondPassTenths)
    ELSE first
validResults(results, tabs, keywords) ==
    secondIfEmpty(validationPass(results, tabs, keywords, FirstPassScore, FirstPassTenths),
                  results, tabs, keywords)

\* finalIds with the validated results they come from; nothing when the
\* response does not parse to an object with a results array.
finalOf(valid, tabs) ==
    [ids |-> [i \in 1..Len(valid) |-> refToTab(tabs, valid[i].ref).id], results |-> valid]
validateResponse(parsed, summaries, query) ==
    IF parsed.ok
    THEN finalOf(validResults(parsed.results, anonymousTabs(summaries),
                              extractKeywords(query)),
                 anonymousTabs(summaries))
    ELSE [ids |-> <<>>, results |-> <<>>]

\* JSON.stringify of a string: quotes and backslashes escaped, line
\* breaks and tabs written as \n and \t.
jsonString(s) ==
    <<"\"">> \o Flatten([i \in 1..Len(s) |->
                 CASE s[i] = "\"" -> <<"\\", "\"">>
                   [] s[i] = "\\" -> <<"\\", "\\">>
                   [] s[i] = "\n" -> <<"\\", "n">>
                   [] s[i] = "\t" -> <<"\\", "t">>
                   [] OTHER -> <<s[i]>>]) \o <<"\"">>

\* JSON.stringify(tags, null, 2) at the depth of a tab's property.
jsonTags(tags) ==
    IF tags = <<>> THEN <<"[", "]">>
    ELSE <<"[", "\n">> \o join([i \in 1..Len(tags) |-> <<" ", " ", " ", " ", " ", " ">> \o jsonString(tags[i])], <<",", "\n">>)
         \o <<"\n", " ", " ", " ", " ", "]">>

\* JSON.stringify of one element of anonymousTabs, properties in the
\* order of the object literal: ref, id, title, summary, tags, url.
jsonTab(tab) ==
    <<" ", " ", "{", "\n">>
    \o <<" ", " ", " ", " ", "\"", "r", "e", "f", "\"", ":", " ">> \o jsonString(tab.ref) \o <<",", "\n">>
    \o <<" ", " ", " ", " ", "\"", "i", "d", "\"", ":", " ">> \o Decimal(tab.id) \o <<",", "\n">>
    \o <<" ", " ", " ", " ", "\"", "t", "i", "t", "l", "e", "\"", ":", " ">> \o jsonString(tab.title) \o <<",", "\n">>
    \o <<" ", " ", " ", " ", "\"", "s", "u", "m", "m", "a", "r", "y", "\"", ":", " ">> \o jsonString(tab.summary) \o <<",", "\n">>
    \o <<" ", " ", " ", " ", "\"", "t", "a", "g", "s", "\"", ":", " ">> \o jsonTags(tab.tags) \o <<",", "\n">>
    \o <<" ", " ", " ", " ", "\"", "u", "r", "l", "\"", ":", " ">> \o jsonString(tab.url) \o <<"\n", " ", " ", "}">>

\* JSON.stringify(anonymousTabs, null, 2)
jsonTabs(tabs) ==
    IF tabs = <<>> THEN <<"[", "]">>
    ELSE <<"[", "\n">> \o join([i \in 1..Len(tabs) |-> jsonTab(tabs[i])], <<",", "\n">>) \o <<"\n", "]">>

\* The lines of the prompt between the query and the tab list, which do
\* not depend on the call: one element of the text.
PromptRules == <<"RULES: ... FORMAT: ... Tabs:">>

\* userPrompt: the query line, the fixed lines and the tab list.
userPrompt(summaries, query) ==
    <<"Q", "u", "e", "r", "y", ":", " ", "\"">> \o query \o <<"\"", "\n", "\n">> \o PromptRules \o <<"\n">>
    \o jsonTabs(anonymousTabs(summaries))

(***************************************************************************)
(* Specification of the semantic scorer                                    *)
(***************************************************************************)

\* The most pieces a reason of this specification is made of.
MaxReasonPieces == 2

\* The pieces of the reasons the model gives: quoted texts (of the first
\* tab, of the second tab, a short one), phrases of uncertainty in mixed
\* case, a keyword, and a sentence of more than fifty characters.
ReasonPieces == {
    <<"'", "W", "e", "b", " ", "d", "e", "v", "'">>, <<"'", "D", "a", "i", "l", "y", " ", "n", "e", "w", "s", "'">>, <<"'", "w", "e", "b", "'">>, <<"M", "i", "g", "h", "t", " ", "B", "e">>, <<"h", "o", "w", "e", "v", "e", "r">>, <<"w", "e", "b">>,
    <<"t", "h", "i", "s", " ", "p", "a", "g", "e", " ", "i", "s", " ", "t", "h", "e", " ", "c", "l", "o", "s", "e", "s", "t", " ", "m", "a", "t", "c", "h", " ", "a", "m", "o", "n", "g", " ", "a", "l", "l", " ", "o", "f", " ", "t", "h", "e", " ", "o", "p", "e", "n", " ", "t", "a", "b", "s">> }

\* The reasons of at most n pieces, joined by spaces.
RECURSIVE Reasons(_)
Reasons(n) ==
    IF n = 0 THEN {<<>>}
    ELSE LET shorter == Reasons(n - 1)
         IN shorter \cup {IF s = <<>> THEN p ELSE s \o <<" ">> \o p :
                             s \in shorter, p \in ReasonPieces}

\* The candidates of a response: a ref of the list, an unknown ref or no
\* ref, a relevanceScore, a reason.
Candidates ==
    [ref : {<<"t", "a", "b", "1">>, <<"t", "a", "b", "2">>, <<"t", "a", "b", "4">>, <<>>},
     relevanceScore : {3, 5, 7, 10},
     reason : Reasons(MaxReasonPieces),
     typeOf : {WellTyped}]

\* Two candidates for the third tab: one of the first pass, one of the
\* second.
SolidCandidate ==
    [ref |-> <<"t", "a", "b", "3">>, relevanceScore |-> 8, reason |-> <<"'", "I", "c", "e", " ", "c", "r", "e", "a", "m", "'", " ", "r", "e", "c", "i", "p", "e", "s", " ", "o", "n", " ", "t", "h", "e", " ", "w", "e", "b">>,
     typeOf |-> WellTyped]
LooseCandidate ==
    [ref |-> <<"t", "a", "b", "3">>, relevanceScore |-> 5, reason |-> <<"r", "e", "c", "i", "p", "e", "s", " ", "o", "n", " ", "t", "h", "e", " ", "w", "e", "b">>,
     typeOf |-> WellTyped]

\* Candidates for the first tab that are sound but for one field: the
\* relevanceScore is the string "9", the reason is an array, the ref is
\* a number.
MalformedCandidates ==
    {[ref |-> <<"t", "a", "b", "1">>, relevanceScore |-> 9, reason |-> <<"'", "W", "e", "b", " ", "d", "e", "v", "'", " ", "g", "u", "i", "d", "e">>, typeOf |-> t] :
        t \in {[WellTyped EXCEPT !.relevanceScore = "string"],
               [WellTyped EXCEPT !.reason = "object"]}}
    \cup {[ref |-> <<"1">>, relevanceScore |-> 9, reason |-> <<"'", "W", "e", "b", " ", "d", "e", "v", "'", " ", "g", "u", "i", "d", "e">>,
           typeOf |-> [WellTyped EXCEPT !.ref = "number"]]}

\* The parsed responses: no results array, or a candidate alone, before
\* the solid one, behind the loose one, or listed twice.
Responses ==
    {[ok |-> FALSE, results |-> <<>>]} \cup
    {[ok |-> TRUE, results |-> rs] :
        rs \in UNION {{<<c>>, <<c, SolidCandidate>>, <<LooseCandidate, c>>, <<c, c>>} :
                         c \in Candidates \cup MalformedCandidates}}

\* The queries of the calls.
SemQueries == {<<"w", "e", "b">>, <<"n", "e", "w", "s", " ", "w", "e", "b", " ", "r", "e", "c", "i", "p", "e", "s">>}

\* The real ids browsers give the three tabs: injective assignments.
RealIds == {7, 42, 305, 1208}
IdAssignments ==
    {a \in [1..Len(Summaries) -> RealIds] : \A i, j \in 1..Len(Summaries) : a[i] = a[j] => i = j}

\* The summaries with the given real ids.
WithRealIds(ids) ==
    [i \in 1..Len(Summaries) |->
        [id |-> ids[i], title |-> Summaries[i].title, url |-> Summaries[i].url,
         summary |-> Summaries[i].summary, tags |-> Summaries[i].tags]]

\* A prompt is about to be built, or a parsed response to be validated.
InitSemantic ==
    /\ InitPopup(FALSE, FALSE, FALSE)
    /\ \/ fnIn \in [op : {"userPrompt"}, arg : [ids : IdAssignments, query : SemQueries]]
       \/ fnIn \in [op : {"validate"}, arg : [parsed : Responses, query : SemQueries]]
    /\ fnOut = NoResult

\* The prompt of the call is built.
CallUserPrompt ==
    /\ fnIn.op = "userPrompt"
    /\ ~fnOut.done
    /\ fnOut' = [done |-> TRUE, value |-> userPrompt(WithRealIds(fnIn.arg.ids), fnIn.arg.query)]
    /\ UNCHANGED <<flagVars, ctlVars, aiSearchSession, tabResultSources, selVars, histVars,
                   busyVars, resultsUl, status, endDisabled, nextSearch, srch, ai, cont,
                   endVars, inputEmpty, fnIn>>

\* The parsed response is validated and mapped to real ids.
CallValidate ==
    /\ fnIn.op = "validate"
    /\ ~fnOut.done
    /\ fnOut' = [done |-> TRUE,
                 value |-> validateResponse(fnIn.arg.parsed, Summaries, fnIn.arg.query)]
    /\ UNCHANGED <<flagVars, ctlVars, aiSearchSession, tabResultSources, selVars, histVars,
                   busyVars, resultsUl, status, endDisabled, nextSearch, srch, ai, cont,
                   endVars, inputEmpty, fnIn>>

NextSemantic == CallUserPrompt \/ CallValidate

SpecSemantic == InitSemantic /\ [][NextSemantic]_vars

(***************************************************************************)
(* The consumers of the persisted session                                  *)
(***************************************************************************)

\* const RESULTS_PER_PAGE = 10
RESULTS_PER_PAGE == 10

\* The tabs chrome.tabs.query returns, in tab-strip order; their titles
\* are not in alphabetical order.
BrowserTabs ==
    << [id |-> 1, title |-> <<"k", "i", "w", "i">>], [id |-> 2, title |-> <<"a", "p", "p", "l", "e">>],
       [id |-> 3, title |-> <<"f", "i", "g">>], [id |-> 4, title |-> <<"d", "a", "t", "e">>],
       [id |-> 5, title |-> <<"c", "h", "e", "r", "r", "y">>], [id |-> 6, title |-> <<"b", "a", "n", "a", "n", "a">>],
       [id |-> 7, title |-> <<"g", "r", "a", "p", "e">>], [id |-> 8, title |-> <<"l", "e", "m", "o", "n">>],
       [id |-> 9, title |-> <<"m", "a", "n", "g", "o">>], [id |-> 10, title |-> <<"o", "l", "i", "v", "e">>],
       [id |-> 11, title |-> <<"p", "e", "a", "r">>], [id |-> 12, title |-> <<"a", "p", "p", "l", "e">>] >>

\* The ranked id lists a search or the semantic scorer hands over.
RankedLists ==
    { <<11, 10, 9, 8, 7, 6, 5, 4, 3, 2, 1>>,
      <<3, 1, 2>>,
      <<12, 5, 2, 5, 9>>,
      <<4, 6, 1, 12, 2, 3, 5, 7, 8, 9, 10, 11>> }

\* The tabs the user may close while the popup is open.
MaxClosed == 2

\* collator.compare(a, b) < 0 for titles of lowercase letters.
LetterRank(c) == CHOOSE i \in 1..26 : <<"a", "b", "c", "d", "e", "f", "g", "h", "i", "j", "k", "l", "m", "n", "o", "p", "q", "r", "s", "t", "u", "v", "w", "x", "y", "z">>[i] = c
RECURSIVE collatorBefore(_, _)
collatorBefore(a, b) ==
    IF b = <<>> THEN FALSE
    ELSE IF a = <<>> THEN TRUE
    ELSE IF Head(a) = Head(b) THEN collatorBefore(Tail(a), Tail(b))
    ELSE LetterRank(Head(a)) < LetterRank(Head(b))

\* orderedIds.indexOf(id), counted from 1.
indexOf(orderedIds, id) ==
    CHOOSE i \in 1..Len(orderedIds) :
        orderedIds[i] = id /\ \A j \in 1..(i - 1) : orderedIds[j] # id

\* Array.prototype.sort by ascending key, stable: keys[i] is the sort key
\* of tabs[i].
sortByKey(tabs, keys) ==
    [p \in 1..Len(tabs) |->
        tabs[CHOOSE j \in 1..Len(tabs) :
                Cardinality({i \in 1..Len(tabs) :
                    keys[i] < keys[j] \/ (keys[i] = keys[j] /\ i < j)}) = p - 1]]

\* selectedTabs.sort((a, b) => orderedIds.indexOf(a.id) - orderedIds.indexOf(b.id))
sortByIndexOf(tabs, orderedIds) ==
    sortByKey(tabs, [i \in 1..Len(tabs) |-> indexOf(orderedIds, tabs[i].id)])

\* selectedTabs.sort((a, b) => collator.compare(a.title, b.title)): the
\* key of a tab is the number of tabs whose title comes before its own.
sortByTitle(tabs) ==
    sortByKey(tabs, [i \in 1..Len(tabs) |->
                        Cardinality({k \in 1..Len(tabs) :
                            collatorBefore(tabs[k].title, tabs[i].title)})])

\* The sorted tabs up to the end of the current page, and hasMore.
PageOf(sorted, page) ==
    [shown |-> IdsOf(Take(sorted, page * RESULTS_PER_PAGE)),
     hasMore |-> Len(sorted) > page * RESULTS_PER_PAGE]

\* renderResultsPage(allTabs, selectedIdSet, preserveOrder) with
\* currentResultsPage = page.
selectedTabsOf(allTabs, selectedIds) ==
    SelectSeq(allTabs, LAMBDA t : t.id \in Range(selectedIds))
renderResultsPage(allTabs, selectedIds, preserveOrder, page) ==
    PageOf(IF preserveOrder
           THEN sortByIndexOf(selectedTabsOf(allTabs, selectedIds), selectedIds)
           ELSE sortByTitle(selectedTabsOf(allTabs, selectedIds)),
           page)

\* Pages the user asks for with 'show more'.
MaxPages == 3

\* The popup's view of a session: fnIn.arg holds the tabs that are open,
\* fnOut.value the pagination state (currentResultsPage, whether the
\* 'show more' container is displayed), the number of tabs closed and
\* the fallbackIds of the search whose semantic scorer is still running.
OpenTabs == fnIn.arg
Pagination(page, hasMore, closed) ==
    [done |-> TRUE,
     value |-> [fnOut.value EXCEPT !.currentResultsPage = page, !.hasMore = hasMore,
                                   !.closed = closed]]

\* A page was rendered: the list shown, the page number and the display
\* of the 'show more' container.
Rendered(r, page) ==
    /\ resultsUl' = r.shown
    /\ fnOut' = Pagination(page, r.hasMore, fnOut.value.closed)

\* renderResultsList(allTabs, ids, preserveOrder): the first page.
RenderFirstPage(ids, preserveOrder) ==
    Rendered(renderResultsPage(OpenTabs, ids, preserveOrder, 1), 1)

\* Everything the consumers of the session leave alone.
sessionFrame == <<flagVars, ctlVars, tabResultSources, selVars, histVars, busyVars,
                  nextSearch, srch, ai, cont, endVars>>

\* The popup is open on twelve tabs, with no session and nothing shown.
InitSession ==
    /\ InitPopup(FALSE, FALSE, FALSE)
    /\ fnIn = [op |-> "session", arg |-> BrowserTabs]
    /\ fnOut = [done |-> FALSE,
                value |-> [currentResultsPage |-> 1, hasMore |-> FALSE, closed |-> 0,
                           fallbackIds |-> <<>>]]

\* handleSearch was returned a non-empty list: it renders the list with
\* preserveOrder = true and persists the session record.
SearchPersists(ids, q) ==
    /\ LET r == renderResultsPage(OpenTabs,
                    SelectSeq(ids, LAMBDA id : id \in Range(IdsOf(OpenTabs))), TRUE, 1)
       IN /\ resultsUl' = r.shown
          /\ fnOut' = [done |-> TRUE,
                       value |-> [currentResultsPage |-> 1, hasMore |-> r.hasMore,
                                  closed |-> fnOut.value.closed,
                                  fallbackIds |->
                                      SelectSeq(ids, LAMBDA id : id \in Range(IdsOf(OpenTabs)))]]
    /\ aiSearchSession' =
           buildSessionRecord(SelectSeq(ids, LAMBDA id : id \in Range(IdsOf(OpenTabs))), q)
    /\ endDisabled' = FALSE
    /\ inputEmpty' = FALSE
    /\ UNCHANGED <<sessionFrame, status, fnIn>>

\* The popup is opened again: initSessionState restores the session.
RestoreSession ==
    /\ aiSearchSession.present
    /\ RenderFirstPage(aiSearchSession.tabIds, aiSearchSession.preserveOrder # FALSE)
    /\ status' = Status("ActiveSearch", 0, 0)
    /\ endDisabled' = FALSE
    /\ inputEmpty' = FALSE
    /\ UNCHANGED <<sessionFrame, aiSearchSession, fnIn>>

\* showMoreResults: the next page of the stored session.
ShowMore ==
    /\ fnOut.value.hasMore
    /\ fnOut.value.currentResultsPage < MaxPages
    /\ IF aiSearchSession.present
       THEN Rendered(renderResultsPage(OpenTabs, aiSearchSession.tabIds,
                                       aiSearchSession.preserveOrder,
                                       fnOut.value.currentResultsPage + 1),
                     fnOut.value.currentResultsPage + 1)
       ELSE /\ fnOut' = Pagination(fnOut.value.currentResultsPage + 1, fnOut.value.hasMore,
                                   fnOut.value.closed)
            /\ UNCHANGED resultsUl
    /\ UNCHANGED <<sessionFrame, aiSearchSession, status, endDisabled, inputEmpty, fnIn>>

\* The then-callback of the hybrid branch, for a semantic list that is
\* not the fallbackIds: the semantic ids are rendered and replace the
\* tabIds of the session, if there is one.
SemanticReplaces(ids) ==
    /\ fnOut.value.fallbackIds # <<>>
    /\ ids # fnOut.value.fallbackIds
    /\ RenderFirstPage(ids, TRUE)
    /\ aiSearchSession' = IF aiSearchSession.present
                          THEN [aiSearchSession EXCEPT !.tabIds = ids]
                          ELSE aiSearchSession
    /\ status' = Status("Found", Len(ids), 0)
    /\ UNCHANGED <<sessionFrame, endDisabled, inputEmpty, fnIn>>

\* The close button of a result: the tab is closed, its element removed
\* and its id filtered out of the session.
CloseTab(id) ==
    /\ fnOut.value.closed < MaxClosed
    /\ \E i \in 1..Len(resultsUl) : resultsUl[i] = id
    /\ fnIn' = [fnIn EXCEPT !.arg = SelectSeq(OpenTabs, LAMBDA t : t.id # id)]
    /\ resultsUl' = SelectSeq(resultsUl, LAMBDA x : x # id)
    /\ fnOut' = Pagination(fnOut.value.currentResultsPage, fnOut.value.hasMore,
                           fnOut.value.closed + 1)
    /\ IF aiSearchSession.present
       THEN /\ aiSearchSession' =
                   [aiSearchSession EXCEPT
                       !.tabIds = SelectSeq(aiSearchSession.tabIds, LAMBDA x : x # id)]
            /\ status' = IF SelectSeq(aiSearchSession.tabIds, LAMBDA x : x # id) = <<>>
                         THEN Status("AllClosed", 0, 0)
                         ELSE Status("TabClosed",
                                     Len(SelectSeq(aiSearchSession.tabIds, LAMBDA x : x # id)), 0)
            /\ endDisabled' = IF SelectSeq(aiSearchSession.tabIds, LAMBDA x : x # id) = <<>>
                              THEN TRUE ELSE endDisabled
       ELSE UNCHANGED <<aiSearchSession, status, endDisabled>>
    /\ UNCHANGED <<sessionFrame, inputEmpty>>

NextSession ==
    \/ \E ids \in RankedLists : SearchPersists(ids, RestoredQuery)
    \/ RestoreSession
    \/ ShowMore
    \/ \E ids \in RankedLists : SemanticReplaces(ids)
    \/ \E id \in 1..Len(BrowserTabs) : CloseTab(id)

SpecSession == InitSession /\ [][NextSession]_vars

(***************************************************************************)
(* Summarization                                                           *)
(***************************************************************************)

\* const maxLength = 500 (and fallbackMaxLength = 500)
SummaryMaxLength == 500

\* parsed.tags.slice(0, 3) and uniqueTags.slice(0, 3)
MaxStoredTags == 3

\* summary.length > maxLength ? summary.slice(0, maxLength) + '...' : summary
truncateSummary(text) ==
    IF Len(text) > SummaryMaxLength
    THEN SubSeq(text, 1, SummaryMaxLength) \o <<".", ".", ".">>
    ELSE text

\* A url that new URL() rejects (the empty string).
NoUrl == [valid |-> FALSE, protocol |-> <<>>, hostname |-> <<>>, pathname |-> <<>>, href |-> <<>>]

\* domain.split('.')[0], when the domain has more than one part.
firstDomainPart(domain) ==
    SubSeq(domain, 1, (CHOOSE i \in 1..Len(domain) :
                          domain[i] = "." /\ \A j \in 1..(i - 1) : domain[j] # ".") - 1)

\* The if / else-if chain over the domain: the first pattern that occurs
\* decides the tag; otherwise the first part of the domain name.
DomainRules ==
    << [pats |-> {<<"g", "i", "t", "h", "u", "b">>}, tag |-> <<"d", "e", "v", "e", "l", "o", "p", "m", "e", "n", "t">>],
       [pats |-> {<<"s", "t", "a", "c", "k", "o", "v", "e", "r", "f", "l", "o", "w">>, <<"s", "t", "a", "c", "k", "e", "x", "c", "h", "a", "n", "g", "e">>}, tag |-> <<"p", "r", "o", "g", "r", "a", "m", "m", "i", "n", "g">>],
       [pats |-> {<<"y", "o", "u", "t", "u", "b", "e">>, <<"v", "i", "m", "e", "o">>}, tag |-> <<"v", "i", "d", "e", "o">>],
       [pats |-> {<<"l", "i", "n", "k", "e", "d", "i", "n">>, <<"t", "w", "i", "t", "t", "e", "r">>, <<"f", "a", "c", "e", "b", "o", "o", "k">>}, tag |-> <<"s", "o", "c", "i", "a", "l">>],
       [pats |-> {<<"a", "m", "a", "z", "o", "n">>, <<"e", "b", "a", "y">>, <<"s", "h", "o", "p">>}, tag |-> <<"s", "h", "o", "p", "p", "i", "n", "g">>],
       [pats |-> {<<"g", "m", "a", "i", "l">>, <<"o", "u", "t", "l", "o", "o", "k">>, <<"m", "a", "i", "l">>}, tag |-> <<"e", "m", "a", "i", "l">>],
       [pats |-> {<<"d", "o", "c", "s", ".", "g", "o", "o", "g", "l", "e">>, <<"o", "f", "f", "i", "c", "e", ".", "c", "o", "m">>}, tag |-> <<"d", "o", "c", "u", "m", "e", "n", "t", "s">>],
       [pats |-> {<<"c", "a", "l", "e", "n", "d", "a", "r">>}, tag |-> <<"c", "a", "l", "e", "n", "d", "a", "r">>],
       [pats |-> {<<"d", "r", "i", "v", "e", ".", "g", "o", "o", "g", "l", "e">>, <<"d", "r", "o", "p", "b", "o", "x">>, <<"o", "n", "e", "d", "r", "i", "v", "e">>}, tag |-> <<"s", "t", "o", "r", "a", "g", "e">>],
       [pats |-> {<<"n", "e", "w", "s">>, <<"c", "n", "n">>, <<"b", "b", "c">>}, tag |-> <<"n", "e", "w", "s">>] >>
domainTags(domain) ==
    IF \E i \in 1..Len(DomainRules) : \E p \in DomainRules[i].pats : includes(domain, p)
    THEN <<DomainRules[CHOOSE i \in 1..Len(DomainRules) :
                /\ \E p \in DomainRules[i].pats : includes(domain, p)
                /\ \A j \in 1..(i - 1) : \A p \in DomainRules[j].pats : ~includes(domain, p)].tag>>
    ELSE IF includes(domain, <<".">>) THEN <<firstDomainPart(domain)>>
    ELSE <<>>

\* The independent tests on the path and on the title, in source order.
PathRules ==
    << [pats |-> {<<"i", "n", "s", "u", "r", "a", "n", "c", "e">>}, tag |-> <<"i", "n", "s", "u", "r", "a", "n", "c", "e">>],
       [pats |-> {<<"f", "i", "n", "a", "n", "c", "e">>, <<"b", "a", "n", "k">>}, tag |-> <<"f", "i", "n", "a", "n", "c", "e">>],
       [pats |-> {<<"h", "e", "a", "l", "t", "h">>, <<"m", "e", "d", "i", "c", "a", "l">>}, tag |-> <<"h", "e", "a", "l", "t", "h">>],
       [pats |-> {<<"e", "d", "u", "c", "a", "t", "i", "o", "n">>, <<"c", "o", "u", "r", "s", "e">>}, tag |-> <<"e", "d", "u", "c", "a", "t", "i", "o", "n">>],
       [pats |-> {<<"j", "o", "b">>, <<"c", "a", "r", "e", "e", "r">>}, tag |-> <<"j", "o", "b", "s">>] >>
TitleRules ==
    PathRules \o
    << [pats |-> {<<"n", "e", "w", "s">>}, tag |-> <<"n", "e", "w", "s">>],
       [pats |-> {<<"s", "h", "o", "p">>, <<"b", "u", "y">>}, tag |-> <<"s", "h", "o", "p", "p", "i", "n", "g">>],
       [pats |-> {<<"v", "i", "d", "e", "o">>, <<"w", "a", "t", "c", "h">>}, tag |-> <<"v", "i", "d", "e", "o">>],
       [pats |-> {<<"d", "o", "c">>, <<"e", "d", "i", "t">>}, tag |-> <<"d", "o", "c", "u", "m", "e", "n", "t", "s">>] >>
ruleTags(rules, text) ==
    [i \in 1..Len(SelectSeq(rules, LAMBDA r : \E p \in r.pats : includes(text, p))) |->
        SelectSeq(rules, LAMBDA r : \E p \in r.pats : includes(text, p))[i].tag]

\* generateFallbackTags(title, url): tags from the domain, the path and
\* the title, without duplicates, at most three.
generateFallbackTags(title, url) ==
    Take(Dedup((IF url.valid
                THEN domainTags(toLowerCase(removeFirst(url.hostname, <<"w", "w", "w", ".">>)))
                         \o ruleTags(PathRules, toLowerCase(url.pathname))
                ELSE <<>>)
               \o (IF title # <<>> THEN ruleTags(TitleRules, toLowerCase(title)) ELSE <<>>)),
         MaxStoredTags)

\* The summary and the tags the prompt branch assigns: nothing when there
\* is no session, no text, or the prompt throws; the trimmed raw text
\* when it does not parse; the parsed summary and its first tags otherwise.
promptSummary(item, r) ==
    IF ~r.session \/ item.text = <<>> \/ r.throws THEN [summary |-> <<>>, tags |-> <<>>]
    ELSE IF ~r.parsed.ok THEN [summary |-> truncateSummary(trim(r.raw)), tags |-> <<>>]
    ELSE IF r.parsed.summary # <<>>
    THEN [summary |-> truncateSummary(r.parsed.summary),
          tags |-> IF r.parsed.tagsIsArray THEN Take(r.parsed.tags, MaxStoredTags) ELSE <<>>]
    ELSE [summary |-> <<>>, tags |-> <<>>]

\* item.text || item.title || item.url || ''
fallbackText(item) ==
    IF item.text # <<>> THEN item.text
    ELSE IF item.title # <<>> THEN item.title
    ELSE item.url.href

\* One element of summarizeBatch's map: the prompt branch, or the
\* fallback when it left the summary empty.
summaryOrFallback(item, fromPrompt) ==
    IF fromPrompt.summary = <<>>
    THEN [id |-> item.id, title |-> item.title, url |-> item.url,
          summary |-> truncateSummary(fallbackText(item)),
          tags |-> generateFallbackTags(item.title, item.url)]
    ELSE [id |-> item.id, title |-> item.title, url |-> item.url,
          summary |-> fromPrompt.summary, tags |-> fromPrompt.tags]
summarizeItem(item, r) == summaryOrFallback(item, promptSummary(item, r))

\* tabSummaries[String(summary.id)] = {url, summary, tags, ...}
cacheEntry(s) == [url |-> s.url, summary |-> s.summary, tags |-> s.tags]

\* A text of n characters.
TextOf(n) == [i \in 1..n |-> "a"]

\* The extracted pages: with and without title, url and text; a text can
\* be longer than the limit.
ExtractedItems ==
    [id : {1},
     title : {<<>>, <<"H", "e", "a", "l", "t", "h", " ", "n", "e", "w", "s", " ", "t", "o", " ", "w", "a", "t", "c", "h">>},
     url : {NoUrl, Url(<<"w", "w", "w", ".", "G", "i", "t", "H", "u", "b", ".", "c", "o", "m">>, <<"/", "c", "o", "u", "r", "s", "e", "/", "j", "o", "b", "-", "b", "a", "n", "k">>),
            Url(<<"b", "l", "o", "g", ".", "e", "x", "a", "m", "p", "l", "e", ".", "o", "r", "g">>, <<"/">>)},
     text : {<<>>, TextOf(12), TextOf(SummaryMaxLength + 1)}]

\* What the model session gives for one page: no session; a prompt that
\* throws; no text (parsed as {}); text that does not parse; or an
\* object with a summary and tags.
NoParse == [ok |-> FALSE, summary |-> <<>>, tagsIsArray |-> FALSE, tags |-> <<>>]
ModelTags == <<<<"o", "n", "e">>, <<"t", "w", "o">>, <<"t", "h", "r", "e", "e">>, <<"f", "o", "u", "r">>>>
SummarizeResponses ==
    { [session |-> FALSE, throws |-> FALSE, raw |-> <<>>, parsed |-> NoParse],
      [session |-> TRUE, throws |-> TRUE, raw |-> <<>>, parsed |-> NoParse],
      [session |-> TRUE, throws |-> FALSE, raw |-> <<>>,
       parsed |-> [NoParse EXCEPT !.ok = TRUE]] }
    \cup { [session |-> TRUE, throws |-> FALSE, raw |-> <<" ">> \o TextOf(n) \o <<" ">>,
            parsed |-> NoParse] : n \in {0, 40, SummaryMaxLength + 1} }
    \cup { [session |-> TRUE, throws |-> FALSE, raw |-> <<>>,
            parsed |-> [ok |-> TRUE, summary |-> TextOf(n), tagsIsArray |-> a,
                        tags |-> IF a THEN ModelTags ELSE <<>>]] :
               n \in {0, 40, SummaryMaxLength, SummaryMaxLength + 1}, a \in BOOLEAN }

\* summarizeBatch is about to be called on one extracted page.
InitSummarize ==
    /\ InitPopup(FALSE, FALSE, FALSE)
    /\ fnIn \in [op : {"summarizeBatch"},
                 arg : [item : ExtractedItems, response : SummarizeResponses]]
    /\ fnOut = NoResult

\* summarizeBatch returns and its result is written to the summary cache.
CallSummarizeBatch ==
    /\ fnIn.op = "summarizeBatch"
    /\ ~fnOut.done
    /\ fnOut' = [done |-> TRUE,
                 value |-> cacheEntry(summarizeItem(fnIn.arg.item, fnIn.arg.response))]
    /\ UNCHANGED <<flagVars, ctlVars, aiSearchSession, tabResultSources, selVars, histVars,
                   busyVars, resultsUl, status, endDisabled, nextSearch, srch, ai, cont,
                   endVars, inputEmpty, fnIn>>

NextSummarize == CallSummarizeBatch

SpecSummarize == InitSummarize /\ [][NextSummarize]_vars

(***************************************************************************)
(* The summary cache                                                       *)
(***************************************************************************)

\* const maxAgeMs = 24 * 60 * 60 * 1000
maxAgeMs == 24 * 60 * 60 * 1000

\* The cache test of getExistingSummaries without the url comparison.
cacheHitAnyUrl(cached, t, now) ==
    /\ cached.present
    /\ now - cached.timestamp < maxAgeMs
    /\ cached.summary # <<>>

\* cached && cached.url === t.url && (now - cached.timestamp) < maxAgeMs
\*        && cached.summary
cacheHit(cached, t, now) ==
    /\ cached.present
    /\ cached.url = t.url.href
    /\ now - cached.timestamp < maxAgeMs
    /\ cached.summary # <<>>

\* `${t.title || ''} ${t.url || ''}`.trim() || t.url || '' for a url that
\* cannot be scripted, ... || 'Loading...' otherwise.
fallbackSummaryOf(t, text) ==
    IF text # <<>> THEN text
    ELSE IF ~isScriptableUrl(t.url) THEN t.url.href
    ELSE <<"L", "o", "a", "d", "i", "n", "g", ".", ".", ".">>
fallbackSummary(t) == fallbackSummaryOf(t, trim(t.title \o <<" ">> \o t.url.href))

\* One iteration of the loop of getExistingSummaries.
existingSummary(cached, t, now) ==
    IF cacheHit(cached, t, now)
    THEN [id |-> t.id, title |-> t.title, url |-> t.url.href,
          summary |-> cached.summary, tags |-> cached.tags]
    ELSE [id |-> t.id, title |-> t.title, url |-> t.url.href,
          summary |-> fallbackSummary(t), tags |-> generateFallbackTags(t.title, t.url)]

\* The pages the tab can show, the summaries the background step can
\* store, and the clock readings (Date.now() in milliseconds).
PageUrls == {Url(<<"w", "w", "w", ".", "g", "i", "t", "h", "u", "b", ".", "c", "o", "m">>, <<"/", "d", "o", "c", "s">>), Url(<<"n", "e", "w", "s", ".", "e", "x", "a", "m", "p", "l", "e", ".", "o", "r", "g">>, <<"/", "h", "e", "a", "l", "t", "h">>),
             Url(<<"c", "h", "r", "o", "m", "e", "w", "e", "b", "s", "t", "o", "r", "e", ".", "g", "o", "o", "g", "l", "e", ".", "c", "o", "m">>, <<"/">>)}
PageTitles == {<<>>, <<"D", "o", "c", "s">>}
StoredSummaries == {<<>>, <<"C", "a", "c", "h", "e", "d", " ", "s", "u", "m", "m", "a", "r", "y", " ", "o", "f", " ", "t", "h", "e", " ", "p", "a", "g", "e">>}
Clock == <<0, 1, maxAgeMs - 1, maxAgeMs, maxAgeMs + 1, 2 * maxAgeMs>>

NoEntry == [present |-> FALSE, url |-> <<>>, timestamp |-> 0, summary |-> <<>>, tags |-> <<>>]

\* fnIn.arg: the tab, its entry in tabSummaries and the position of the
\* clock.
Browser(tab, cached, tick) ==
    [op |-> "getExistingSummaries", arg |-> [tab |-> tab, cached |-> cached, tick |-> tick]]
CacheTab == fnIn.arg.tab
CacheEntry == fnIn.arg.cached
CacheNow == Clock[fnIn.arg.tick]

cacheFrame == <<flagVars, ctlVars, aiSearchSession, tabResultSources, selVars, histVars,
                busyVars, resultsUl, status, endDisabled, nextSearch, srch, ai, cont,
                endVars, inputEmpty>>

\* One tab is open; nothing is cached for it.
InitCache ==
    /\ InitPopup(FALSE, FALSE, FALSE)
    /\ \E u \in PageUrls, title \in PageTitles :
           fnIn = Browser([id |-> 1, title |-> title, url |-> u], NoEntry, 1)
    /\ fnOut = NoResult

\* Background summarization stores an entry for the tab under its
\* current url.
StoreSummary(summary) ==
    /\ fnIn' = Browser(CacheTab,
                       [present |-> TRUE, url |-> CacheTab.url.href, timestamp |-> CacheNow,
                        summary |-> summary,
                        tags |-> generateFallbackTags(CacheTab.title, CacheTab.url)],
                       fnIn.arg.tick)
    /\ fnOut' = NoResult
    /\ UNCHANGED cacheFrame

\* The tab navigates to another page.
Navigate(u, title) ==
    /\ u # CacheTab.url
    /\ fnIn' = Browser([id |-> 1, title |-> title, url |-> u], CacheEntry, fnIn.arg.tick)
    /\ fnOut' = NoResult
    /\ UNCHANGED cacheFrame

\* chrome.tabs.onUpdated in the service worker: on an event with status
\* 'complete' and a url the entry of the tab is deleted.
OnUpdated(complete, hasUrl) ==
    /\ fnIn' = Browser(CacheTab, IF complete /\ hasUrl THEN NoEntry ELSE CacheEntry,
                       fnIn.arg.tick)
    /\ fnOut' = NoResult
    /\ UNCHANGED cacheFrame

\* Time passes.
Tick ==
    /\ fnIn.arg.tick < Len(Clock)
    /\ fnIn' = Browser(CacheTab, CacheEntry, fnIn.arg.tick + 1)
    /\ fnOut' = NoResult
    /\ UNCHANGED cacheFrame

\* getExistingSummaries([tab]) returns.
CallGetExistingSummaries ==
    /\ ~fnOut.done
    /\ fnOut' = [done |-> TRUE, value |-> existingSummary(CacheEntry, CacheTab, CacheNow)]
    /\ UNCHANGED <<cacheFrame, fnIn>>

NextCache ==
    \/ \E s \in StoredSummaries : StoreSummary(s)
    \/ \E u \in PageUrls, title \in PageTitles : Navigate(u, title)
    \/ \E complete, hasUrl \in BOOLEAN : OnUpdated(complete, hasUrl)
    \/ Tick
    \/ CallGetExistingSummaries

SpecCache == InitCache /\ [][NextCache]_vars

(***************************************************************************)
(* Background summarization and the service worker's removal handler       *)
(***************************************************************************)

\* const BATCH_SIZE = 10
BATCH_SIZE == 10

\* The largest number of tabs one run summarizes: more than one batch.
MaxBgTabs == 11

\* The tabs background summarization is called with: scriptable tabs, with
\* and without a title.
BgTab(i) ==
    IF i % 2 = 1
    THEN [id |-> i, title |-> <<"H", "e", "a", "l", "t", "h", " ", "n", "e", "w", "s", " ", "t", "o", " ", "w", "a", "t", "c", "h">>,
          url |-> Url(<<"w", "w", "w", ".", "G", "i", "t", "H", "u", "b", ".", "c", "o", "m">>, <<"/", "c", "o", "u", "r", "s", "e", "/", "j", "o", "b", "-", "b", "a", "n", "k">>)]
    ELSE [id |-> i, title |-> <<>>, url |-> Url(<<"b", "l", "o", "g", ".", "e", "x", "a", "m", "p", "l", "e", ".", "o", "r", "g">>, <<"/">>)]
BgTabs(n) == [i \in 1..n |-> BgTab(i)]

\* No entry under a key of tabSummaries.
NoSummary ==
    [present |-> FALSE, url |-> <<>>, summary |-> <<>>, hasTags |-> FALSE, tags |-> <<>>]

\* An entry an earlier run stored for a tab.
OldSummary(t) ==
    [present |-> TRUE, url |-> t.url.href, summary |-> <<"o", "l", "d">>, hasTags |-> TRUE,
     tags |-> <<<<"o", "l", "d">>>>]

\* tabSummaries[String(summary.id)] = {url, summary, tags: summary.tags || [], ...}
summarizedEntry(s) ==
    [present |-> TRUE, url |-> s.url.href, summary |-> s.summary, hasTags |-> TRUE,
     tags |-> s.tags]

\* The catch branch: {url, summary: fallbackSummary, timestamp, tabId},
\* with fallbackSummary = `${title} ${url}`.trim() || url || '': no tags.
failedEntry(tab) ==
    [present |-> TRUE, url |-> tab.url.href,
     summary |-> trim(tab.title \o <<" ">> \o tab.url.href),
     hasTags |-> FALSE, tags |-> <<>>]

\* tabs.slice(batchStart, batchStart + BATCH_SIZE), as the set of its ids.
batchIds(n, batchStart) ==
    { i \in 1..n : i > batchStart /\ i <= batchStart + BATCH_SIZE }

\* What extractTextFromTabs and summarizeBatch give for one batch: an
\* exception, or for every tab a page text and a model response.
BgTexts == {<<>>, TextOf(12)}
BgResponses ==
    { [session |-> FALSE, throws |-> FALSE, raw |-> <<>>, parsed |-> NoParse],
      [session |-> TRUE, throws |-> FALSE, raw |-> <<>>,
       parsed |-> [ok |-> TRUE, summary |-> TextOf(40), tagsIsArray |-> TRUE,
                   tags |-> ModelTags]] }
BatchOutcomes ==
    { [thrown |-> TRUE, text |-> <<>>, response |-> CHOOSE r \in BgResponses : ~r.session] }
    \cup [thrown : {FALSE}, text : BgTexts, response : BgResponses]

\* The body of the for loop up to the write: the entries of the batch in
\* the function's own tabSummaries object.
batchEntries(local, tabs, ids, o) ==
    [i \in 1..Len(tabs) |->
        IF i \notin ids THEN local[i]
        ELSE IF o.thrown THEN failedEntry(tabs[i])
        ELSE summarizedEntry(summarizeItem(
                 [id |-> i, title |-> tabs[i].title, url |-> tabs[i].url, text |-> o.text],
                 o.response))]

\* delete tabSummaries[key]
deleteKey(map, id) == [i \in 1..Len(map) |-> IF i = id THEN NoSummary ELSE map[i]]

\* The state of the run: chrome.storage.local's tabSummaries, the object
\* summarizeTabsWithProgress holds, its position, what the last batch was
\* given, the open tabs, and for every tab its removal handler.
Bg == fnOut.value
BgN == Len(fnIn.arg.tabs)
IdleHandler == [pc |-> "idle", copy |-> <<>>]
BgStart(n, stored) ==
    [stored |-> stored, local |-> <<>>, pc |-> "get", batchStart |-> 0,
     last |-> [ids |-> {}, outcome |-> CHOOSE o \in BatchOutcomes : o.thrown],
     closed |-> {}, handler |-> [i \in 1..n |-> IdleHandler]]

\* The tabs that may be closed during the run.
ClosableIds == {1, 2}

bgFrame ==
    UNCHANGED <<flagVars, ctlVars, aiSearchSession, tabResultSources, selVars, histVars,
                busyVars, resultsUl, status, endDisabled, nextSearch, srch, ai, cont,
                endVars, inputEmpty, fnIn>>

\* summarizeTabsWithProgress is called with 1, 2 or 11 tabs; the cache is
\* empty or holds an older entry for the first tab.
InitBackground ==
    /\ InitPopup(FALSE, FALSE, FALSE)
    /\ \E n \in {1, 2, MaxBgTabs}, old \in BOOLEAN :
          /\ fnIn = [op |-> "summarizeTabsWithProgress", arg |-> [tabs |-> BgTabs(n)]]
          /\ fnOut = [done |-> FALSE,
                      value |-> BgStart(n, [i \in 1..n |->
                                   IF old /\ i = 1 THEN OldSummary(BgTab(i)) ELSE NoSummary])]

\* const { tabSummaries = {} } = await chrome.storage.local.get('tabSummaries')
BgGet ==
    /\ Bg.pc = "get"
    /\ fnOut' = [fnOut EXCEPT !.value.local = Bg.stored, !.value.pc = "batch"]
    /\ bgFrame

\* One batch: extraction and summarizeBatch, or the catch branch.
BgBatch(o) ==
    /\ Bg.pc = "batch"
    /\ LET ids == batchIds(BgN, Bg.batchStart)
       IN fnOut' = [fnOut EXCEPT
                       !.value.local = batchEntries(Bg.local, fnIn.arg.tabs, ids, o),
                       !.value.last = [ids |-> ids, outcome |-> o],
                       !.value.pc = "set"]
    /\ bgFrame

\* await chrome.storage.local.set({ tabSummaries }), and the loop's step.
BgSet ==
    /\ Bg.pc = "set"
    /\ LET next == Bg.batchStart + BATCH_SIZE
       IN fnOut' = [done |-> ~(next < BgN),
                    value |-> [Bg EXCEPT !.stored = Bg.local, !.batchStart = next,
                                         !.pc = IF next < BgN THEN "batch" ELSE "done"]]
    /\ bgFrame

\* A tab is closed: chrome.tabs.onRemoved fires.
BgCloseTab(id) ==
    /\ id \in 1..BgN /\ id \notin Bg.closed
    /\ fnOut' = [fnOut EXCEPT !.value.closed = Bg.closed \cup {id},
                              !.value.handler[id].pc = "get"]
    /\ bgFrame

\* onRemoved: the read, and the delete in the handler's own object.
OnRemovedGet(id) ==
    /\ id \in 1..BgN /\ Bg.handler[id].pc = "get"
    /\ fnOut' = [fnOut EXCEPT !.value.handler[id] =
                     IF Bg.stored[id].present
                     THEN [pc |-> "set", copy |-> deleteKey(Bg.stored, id)]
                     ELSE [pc |-> "done", copy |-> <<>>]]
    /\ bgFrame

\* onRemoved: await chrome.storage.local.set({ tabSummaries })
OnRemovedSet(id) ==
    /\ id \in 1..BgN /\ Bg.handler[id].pc = "set"
    /\ fnOut' = [fnOut EXCEPT !.value.stored = Bg.handler[id].copy,
                              !.value.handler[id] = [pc |-> "done", copy |-> <<>>]]
    /\ bgFrame

NextBackground ==
    \/ BgGet
    \/ \E o \in BatchOutcomes : BgBatch(o)
    \/ BgSet
    \/ \E id \in ClosableIds : BgCloseTab(id)
    \/ \E id \in ClosableIds : OnRemovedGet(id)
    \/ \E id \in ClosableIds : OnRemovedSet(id)

SpecBackground == InitBackground /\ [][NextBackground]_vars

(***************************************************************************)
(* getOnDeviceSession: the memoized model sessions                         *)
(***************************************************************************)

\* The most calls of getOnDeviceSession in one run of the popup.
MaxCalls == 4

\* The keys the callers use: summarizeBatch and the semantic scorer.
PurposeKeys == {"summarize", "select_scored"}

\* No session (createOnDeviceSession gave null) and no promise.
NoModelSession == 0
NoPromise == 0

\* sessionCreatePromises.has(cacheKey); the variant that never finds a
\* pending creation comes first.
hasCreatePromiseNever(promises, key) == FALSE
hasCreatePromise(promises, key) == promises[key] # NoPromise

\* sessionCache, sessionCreatePromises, the creations started so far
\* (the promise p of each), and what each call of getOnDeviceSession
\* returned: the cached session, or the promise of a creation.
Dev == fnOut.value
DevStart ==
    [sessionCache |-> [k \in PurposeKeys |-> NoModelSession],
     sessionCreatePromises |-> [k \in PurposeKeys |-> NoPromise],
     creations |-> <<>>, calls |-> <<>>]

devFrame ==
    UNCHANGED <<flagVars, ctlVars, aiSearchSession, tabResultSources, selVars, histVars,
                busyVars, resultsUl, status, endDisabled, nextSearch, srch, ai, cont,
                endVars, inputEmpty, fnIn>>

InitOnDevice ==
    /\ InitPopup(FALSE, FALSE, FALSE)
    /\ fnIn = [op |-> "getOnDeviceSession", arg |-> <<>>]
    /\ fnOut = [done |-> FALSE, value |-> DevStart]

\* getOnDeviceSession(key, systemPrompt) up to its return: the cached
\* session; or the promise of the pending creation; or a new creation,
\* which runs up to its await before its promise is stored under the key.
getOnDeviceSession(key) ==
    /\ Len(Dev.calls) < MaxCalls
    /\ IF Dev.sessionCache[key] # NoModelSession
       THEN fnOut' = [fnOut EXCEPT !.value.calls = Append(Dev.calls,
                         [key |-> key, via |-> "cache", promise |-> NoPromise,
                          session |-> Dev.sessionCache[key]])]
       ELSE IF hasCreatePromise(Dev.sessionCreatePromises, key)
       THEN fnOut' = [fnOut EXCEPT !.value.calls = Append(Dev.calls,
                         [key |-> key, via |-> "pending",
                          promise |-> Dev.sessionCreatePromises[key],
                          session |-> NoModelSession])]
       ELSE LET p == Len(Dev.creations) + 1
            IN fnOut' = [fnOut EXCEPT
                   !.value.creations = Append(Dev.creations,
                         [key |-> key, settled |-> FALSE, session |-> NoModelSession]),
                   !.value.sessionCreatePromises[key] = p,
                   !.value.calls = Append(Dev.calls,
                         [key |-> key, via |-> "created", promise |-> p,
                          session |-> NoModelSession])]
    /\ devFrame

\* createOnDeviceSession settles and the creation continues: the session
\* is cached when there is one, the promise is deleted from the map and
\* resolves with the session or null.
CreationSettles(p, sess) ==
    /\ p \in 1..Len(Dev.creations)
    /\ ~Dev.creations[p].settled
    /\ LET key == Dev.creations[p].key
       IN fnOut' = [fnOut EXCEPT
              !.value.creations[p] = [key |-> key, settled |-> TRUE, session |-> sess],
              !.value.sessionCache[key] =
                  IF sess # NoModelSession THEN sess ELSE Dev.sessionCache[key],
              !.value.sessionCreatePromises[key] = NoPromise]
    /\ devFrame

\* A created session is named after its creation; null is NoModelSession.
NextOnDevice ==
    \/ \E key \in PurposeKeys : getOnDeviceSession(key)
    \/ \E p \in 1..MaxCalls : \E ok \in BOOLEAN :
          CreationSettles(p, IF ok THEN p ELSE NoModelSession)

SpecOnDevice == InitOnDevice /\ [][NextOnDevice]_vars

(***************************************************************************)
(* The two mode toggles and the load of the stored preferences             *)
(***************************************************************************)

\* The most continuations of one toggle's change handler that wait for
\* their first chrome.storage.local.set at the same time.
MaxPendingHandlers == 2

\* aiOnlyEnabled after the load callback; the variant that takes the
\* saved value as it is comes first.
loadedAiOnlyAsSaved(savedAggressive, savedAiOnly) == savedAiOnly
loadedAiOnly(savedAggressive, savedAiOnly) == savedAiOnly /\ ~savedAggressive

\* The two checkboxes, chrome.storage.local's two preferences, whether
\* the load callback is still to run, and per toggle the handlers that
\* await the set of the other preference.
Tog == fnOut.value
Saved == fnIn.arg
TogStart(saved) ==
    [aggressiveChecked |-> FALSE, aiOnlyChecked |-> FALSE, stored |-> saved,
     loading |-> TRUE, pendingAggressive |-> 0, pendingAiOnly |-> 0]

toggleFrame ==
    UNCHANGED <<ctlVars, aiSearchSession, tabResultSources, selVars, histVars, busyVars,
                resultsUl, status, endDisabled, nextSearch, srch, ai, cont, endVars,
                inputEmpty, fnIn>>

\* The popup is constructed: both flags false, the get of the stored
\* preferences is issued; any pair of saved values.
InitToggles ==
    /\ InitPopup(FALSE, FALSE, FALSE)
    /\ fnIn \in [op : {"toggles"},
                 arg : [aggressiveSearchEnabled : BOOLEAN, aiOnlyEnabled : BOOLEAN]]
    /\ fnOut = [done |-> FALSE, value |-> TogStart(fnIn.arg)]

\* The user sets the Aggressive checkbox: the change handler up to its
\* first await (checked), or to its end (unchecked).
AggressiveChange(checked) ==
    /\ Tog.aggressiveChecked # checked
    /\ IF checked
       THEN /\ Tog.pendingAggressive < MaxPendingHandlers
            /\ aiOnlyEnabled' = FALSE
            /\ UNCHANGED aggressiveSearchEnabled
            /\ fnOut' = [fnOut EXCEPT !.value.aggressiveChecked = TRUE,
                                      !.value.aiOnlyChecked = FALSE,
                                      !.value.stored.aiOnlyEnabled = FALSE,
                                      !.value.pendingAggressive = Tog.pendingAggressive + 1]
       ELSE /\ aggressiveSearchEnabled' = FALSE
            /\ UNCHANGED aiOnlyEnabled
            /\ fnOut' = [fnOut EXCEPT !.value.aggressiveChecked = FALSE,
                                      !.value.stored.aggressiveSearchEnabled = FALSE]
    /\ toggleFrame

\* The handler continues after its await: e.target.checked is read now.
AggressiveContinues ==
    /\ Tog.pendingAggressive > 0
    /\ aggressiveSearchEnabled' = Tog.aggressiveChecked
    /\ UNCHANGED aiOnlyEnabled
    /\ fnOut' = [fnOut EXCEPT !.value.stored.aggressiveSearchEnabled = Tog.aggressiveChecked,
                              !.value.pendingAggressive = Tog.pendingAggressive - 1]
    /\ toggleFrame

\* The user sets the AI Only checkbox.
AiOnlyChange(checked) ==
    /\ Tog.aiOnlyChecked # checked
    /\ IF checked
       THEN /\ Tog.pendingAiOnly < MaxPendingHandlers
            /\ aggressiveSearchEnabled' = FALSE
            /\ UNCHANGED aiOnlyEnabled
            /\ fnOut' = [fnOut EXCEPT !.value.aiOnlyChecked = TRUE,
                                      !.value.aggressiveChecked = FALSE,
                                      !.value.stored.aggressiveSearchEnabled = FALSE,
                                      !.value.pendingAiOnly = Tog.pendingAiOnly + 1]
       ELSE /\ aiOnlyEnabled' = FALSE
            /\ UNCHANGED aggressiveSearchEnabled
            /\ fnOut' = [fnOut EXCEPT !.value.aiOnlyChecked = FALSE,
                                      !.value.stored.aiOnlyEnabled = FALSE]
    /\ toggleFrame

AiOnlyContinues ==
    /\ Tog.pendingAiOnly > 0
    /\ aiOnlyEnabled' = Tog.aiOnlyChecked
    /\ UNCHANGED aggressiveSearchEnabled
    /\ fnOut' = [fnOut EXCEPT !.value.stored.aiOnlyEnabled = Tog.aiOnlyChecked,
                              !.value.pendingAiOnly = Tog.pendingAiOnly - 1]
    /\ toggleFrame

\* The then-callback of the get issued at construction: it is given the
\* values that were stored then.
LoadPreferences ==
    /\ Tog.loading
    /\ aggressiveSearchEnabled' = Saved.aggressiveSearchEnabled
    /\ aiOnlyEnabled' = loadedAiOnly(Saved.aggressiveSearchEnabled, Saved.aiOnlyEnabled)
    /\ fnOut' = [done |-> TRUE,
                 value |-> [Tog EXCEPT
                     !.loading = FALSE,
                     !.aggressiveChecked = Saved.aggressiveSearchEnabled,
                     !.aiOnlyChecked =
                         loadedAiOnly(Saved.aggressiveSearchEnabled, Saved.aiOnlyEnabled),
                     !.stored.aiOnlyEnabled =
                         IF Saved.aggressiveSearchEnabled /\ Saved.aiOnlyEnabled
                         THEN FALSE ELSE Tog.stored.aiOnlyEnabled]]
    /\ toggleFrame

NextToggles ==
    \/ \E checked \in BOOLEAN : AggressiveChange(checked)
    \/ AggressiveContinues
    \/ \E checked \in BOOLEAN : AiOnlyChange(checked)
    \/ AiOnlyContinues
    \/ LoadPreferences

SpecToggles == InitToggles /\ [][NextToggles]_vars

(***************************************************************************)
(* Today's search history: logSearchHistory and removeFromHistory          *)
(***************************************************************************)

\* The searches and removals of one run.
MaxHistoryOps == 3

\* The queries searched for in the run, and the histories earlier
\* searches of the day left (most recent first).
SearchedQueries == {1, 5, 6}
HistoryQueries == 1..6
StoredHistories == {<<>>, <<2, 1>>, <<5, 4, 3, 2, 1>>}

\* arr.filter(item => item.query !== queryToRemove)
withoutQuery(arr, queryToRemove) == SelectSeq(arr, LAMBDA x : x # queryToRemove)

\* The calls of logSearchHistory and removeFromHistory that are under
\* way (each with the array it read), and the query of the search whose
\* logSearchHistory returned last (0: none, or removed since).
Hist == fnOut.value
HistStart == [ops |-> <<>>, lastLogged |-> 0]

historyFrame ==
    UNCHANGED <<flagVars, ctlVars, aiSearchSession, tabResultSources, selVars, busyVars,
                resultsUl, status, endDisabled, nextSearch, srch, ai, cont, endVars,
                inputEmpty, fnIn>>

\* The popup is open with no session; the chips show the history the
\* earlier searches of the day left.
InitHistory ==
    /\ aggressiveSearchEnabled = TRUE
    /\ aiOnlyEnabled = FALSE
    /\ activeSearchController = 0
    /\ aborted = {}
    /\ cancelled = {}
    /\ aiSearchSession = NoSession
    /\ tabResultSources = EmptyMap
    /\ tabSelectionReasons = EmptyMap
    /\ tabSelectionScores = EmptyMap
    /\ isSearching = 0
    /\ searchHistory \in StoredHistories
    /\ historyItems = searchHistory
    /\ resultsUl = <<>>
    /\ status = NoStatus
    /\ searchDisabled = FALSE
    /\ endDisabled = TRUE
    /\ endHidden = TRUE
    /\ inputEmpty = TRUE
    /\ chipsDisabled = FALSE
    /\ nextSearch = 1
    /\ srch = [k \in Searches |-> IdleSearch]
    /\ ai = [k \in Searches |-> IdleAI]
    /\ cont = [k \in Searches |-> IdleCont]
    /\ endc = IdleEnd
    /\ endCount = 0
    /\ clearTimers = 0
    /\ answers = 0
    /\ fnIn = [op |-> "history", arg |-> <<>>]
    /\ fnOut = [done |-> FALSE, value |-> HistStart]

\* A call that is under way: its kind, its query, the array it read and
\* its position.
HistoryOp(kind, q, arr) == [kind |-> kind, query |-> q, arr |-> arr, pc |-> "set"]

\* logSearchHistory(query, tabIds) up to the resolution of its get.
LogHistoryGet(q) ==
    /\ Len(Hist.ops) < MaxHistoryOps
    /\ fnOut' = [fnOut EXCEPT !.value.ops = Append(Hist.ops, HistoryOp("log", q, searchHistory))]
    /\ UNCHANGED <<searchHistory, historyItems>>
    /\ historyFrame

\* logSearchHistory stores the array and returns to handleSearch.
LogHistorySet(n) ==
    /\ n \in 1..Len(Hist.ops)
    /\ Hist.ops[n].kind = "log" /\ Hist.ops[n].pc = "set"
    /\ searchHistory' = Logged(Hist.ops[n].arr, Hist.ops[n].query)
    /\ fnOut' = [fnOut EXCEPT !.value.ops[n].pc = "load",
                              !.value.lastLogged = Hist.ops[n].query]
    /\ UNCHANGED historyItems
    /\ historyFrame

\* The remove button of a chip: removeFromHistory up to the resolution
\* of its get.
RemoveFromHistoryGet(q) ==
    /\ Len(Hist.ops) < MaxHistoryOps
    /\ q \in Range(historyItems)
    /\ fnOut' = [fnOut EXCEPT
                    !.value.ops = Append(Hist.ops, HistoryOp("remove", q, searchHistory))]
    /\ UNCHANGED <<searchHistory, historyItems>>
    /\ historyFrame

\* removeFromHistory stores the filtered array.
RemoveFromHistorySet(n) ==
    /\ n \in 1..Len(Hist.ops)
    /\ Hist.ops[n].kind = "remove" /\ Hist.ops[n].pc = "set"
    /\ searchHistory' = withoutQuery(Hist.ops[n].arr, Hist.ops[n].query)
    /\ fnOut' = [fnOut EXCEPT !.value.ops[n].pc = "load",
                              !.value.lastLogged =
                                  IF Hist.lastLogged = Hist.ops[n].query THEN 0
                                  ELSE Hist.lastLogged]
    /\ UNCHANGED historyItems
    /\ historyFrame

\* loadHistory and renderHistory, after the log or the removal.
LoadHistory(n) ==
    /\ n \in 1..Len(Hist.ops)
    /\ Hist.ops[n].pc = "load"
    /\ historyItems' = Take(searchHistory, HistoryLimit)
    /\ fnOut' = [done |-> TRUE, value |-> [Hist EXCEPT !.ops[n].pc = "done"]]
    /\ UNCHANGED searchHistory
    /\ historyFrame

NextHistory ==
    \/ \E q \in SearchedQueries : LogHistoryGet(q)
    \/ \E n \in 1..MaxHistoryOps : LogHistorySet(n)
    \/ \E q \in HistoryQueries : RemoveFromHistoryGet(q)
    \/ \E n \in 1..MaxHistoryOps : RemoveFromHistorySet(n)
    \/ \E n \in 1..MaxHistoryOps : LoadHistory(n)

SpecHistory == InitHistory /\ [][NextHistory]_vars

(***************************************************************************)
(* The popup under fair scheduling                                         *)
(***************************************************************************)

\* What the user does: a search from the button or a chip, the end button.
UserAction ==
    \/ SearchEmptyQuery
    \/ \E q \in Queries, viaChip \in BOOLEAN : StartSearch(q, viaChip)
    \/ EndSearchClick

\* A continuation, a callback or a timer of the popup runs.
ProgramStep == Next /\ ~UserAction

\* The event loop runs every continuation that is ready; the user need
\* not do anything.
SpecFair == Init /\ [][Next]_vars /\ WF_vars(ProgramStep)

(***************************************************************************)
(* handleEndSearch next to the caches it leaves alone                      *)
(***************************************************************************)

\* chrome.storage.local's tabSummaries (the ids that have an entry) and
\* the keys of sessionCache, next to the stored history.
Caches == fnOut.value
CachedStates == [tabSummaries : SUBSET {1, 2}, sessionCache : SUBSET PurposeKeys]

endFrame ==
    UNCHANGED <<flagVars, ctlVars, aiSearchSession, tabResultSources, selVars, busyVars,
                resultsUl, status, endDisabled, nextSearch, srch, ai, cont, endVars,
                inputEmpty, fnIn>>

\* The popup shows the restored session of an earlier search; summaries
\* and model sessions may be cached.
InitEndSearch ==
    /\ \E m \in ModePrefs : InitPopup(m[1], m[2], TRUE)
    /\ fnIn = [op |-> "handleEndSearch", arg |-> <<>>]
    /\ fnOut \in [done : {FALSE}, value : CachedStates]

\* Background summarization stores the entry of a tab.
SummaryStored(id) ==
    /\ id \notin Caches.tabSummaries
    /\ fnOut' = [fnOut EXCEPT !.value.tabSummaries = Caches.tabSummaries \cup {id}]
    /\ UNCHANGED histVars
    /\ endFrame

\* getOnDeviceSession caches the session it created for a key.
SessionCached(key) ==
    /\ key \notin Caches.sessionCache
    /\ fnOut' = [fnOut EXCEPT !.value.sessionCache = Caches.sessionCache \cup {key}]
    /\ UNCHANGED histVars
    /\ endFrame

\* logSearchHistory stores a search of the day.
HistoryLogged(q) ==
    /\ searchHistory' = Logged(searchHistory, q)
    /\ UNCHANGED <<historyItems, fnOut>>
    /\ endFrame

NextEndSearch ==
    \/ EndSearchClick
    \/ EndSearchGot
    \/ EndSearchRemove
    \/ EndSearchReset
    \/ ClearStatusTimer
    \/ \E id \in {1, 2} : SummaryStored(id)
    \/ \E key \in PurposeKeys : SessionCached(key)
    \/ \E q \in Queries : HistoryLogged(q)

SpecEndSearch == InitEndSearch /\ [][NextEndSearch]_vars
(***************************************************************************)
(* Properties of the keyword extractor                                     *)
(***************************************************************************)

\* The positions of a query where a token (a maximal run of characters
\* that are not whitespace) starts, and where the token that starts at i
\* ends.
TokenStarts(s) ==
    {i \in 1..Len(s) : s[i] \notin WhiteSpace /\ (i = 1 \/ s[i - 1] \in WhiteSpace)}
TokenEnd(s, i) ==
    CHOOSE j \in i..Len(s) :
        /\ \A m \in i..j : s[m] \notin WhiteSpace
        /\ j = Len(s) \/ s[j + 1] \in WhiteSpace
Token(s, i) == toLowerCase(SubSeq(s, i, TokenEnd(s, i)))

\* The token starts whose token is no stop word and longer than two
\* characters.
SurvivingStarts(s) ==
    {i \in TokenStarts(s) : Token(s, i) \notin stopWords /\ Len(Token(s, i)) > 2}

\* The tokens that start at the given positions, in the order of the query.
TokensAt(s, starts) ==
    [r \in 1..Cardinality(starts) |->
        Token(s, CHOOSE i \in starts : Cardinality({j \in starts : j < i}) = r - 1)]

\* C9: extractKeywords returns a non-empty sequence for every query with a
\* character that is not whitespace; when no token survives the filter
\* (each is a stop word or at most two characters long) it returns all
\* tokens of the query, lowercased and unfiltered.
C9_NeverEmpty ==
    (fnOut.done /\ TokenStarts(fnIn.arg) # {}) =>
        /\ fnOut.value # <<>>
        /\ SurvivingStarts(fnIn.arg) = {} =>
               fnOut.value = TokensAt(fnIn.arg, TokenStarts(fnIn.arg))

\* A query of two tokens none of which survives has been extracted.
C9_Witness ==
    /\ fnOut.done
    /\ Cardinality(TokenStarts(fnIn.arg)) = 2
    /\ SurvivingStarts(fnIn.arg) = {}
    /\ Len(fnOut.value) = 2

\* C10: when a token survives the filter, extractKeywords returns exactly
\* the lowercased tokens that are no stop words and longer than two
\* characters, in the order of the query; the example query yields
\* javascript, tutorials.
C10_SurvivorsInOrder ==
    fnOut.done =>
        /\ SurvivingStarts(fnIn.arg) # {} =>
               fnOut.value = TokensAt(fnIn.arg, SurvivingStarts(fnIn.arg))
        /\ fnIn.arg = ExampleQuery =>
               fnOut.value = <<<<"j", "a", "v", "a", "s", "c", "r", "i", "p", "t">>, <<"t", "u", "t", "o", "r", "i", "a", "l", "s">>>>

\* A query with a token that survives and tokens that do not has been
\* extracted.
C10_Witness ==
    /\ fnOut.done
    /\ SurvivingStarts(fnIn.arg) # {}
    /\ SurvivingStarts(fnIn.arg) # TokenStarts(fnIn.arg)
    /\ Len(fnOut.value) = Cardinality(SurvivingStarts(fnIn.arg))

(***************************************************************************)
(* Properties of the popup                                                 *)
(***************************************************************************)

\* A step taken by search k: by its handleSearch, its semantic scorer or
\* its then-callback.
StepOf(k) == srch'[k] # srch[k] \/ ai'[k] # ai[k] \/ cont'[k] # cont[k]

\* A step of the semantic path of search k: of its scorer or its callback.
SemanticStepOf(k) == ai'[k] # ai[k] \/ cont'[k] # cont[k]

\* The reconciler of search k has returned to handleSearch.
Returned(k) ==
    srch[k].pc \in {"logWrite", "histLoad", "show", "emptyFin", "persist", "enable",
                    "srcRead", "final", "finNull", "done"}

\* Search k ran both scorers and the lexical one found something.
HybridWithLexical(k) == srch[k].mode = "hybrid" /\ srch[k].fb # <<>>

\* Search k is the only search so far and cancel was never clicked.
Alone(k) == k = 1 /\ nextSearch = 2 /\ endCount = 0

\* Everything search k started has finished.
Finished(k) == srch[k].pc = "done" /\ ai[k].pc \in {"idle", "done"} /\ cont[k].pc \in {"idle", "done"}

\* C1: in hybrid mode, with a non-empty lexical list and a non-empty
\* semantic list S, once the handler and the then-callback have finished
\* the persisted session holds exactly S, in every interleaving.
C1_SemanticReplacesSession ==
    \A k \in Searches :
        (Alone(k) /\ HybridWithLexical(k) /\ Finished(k) /\ ai[k].res # <<>>) =>
            aiSearchSession.present /\ aiSearchSession.tabIds = ai[k].res

\* C2: once a later search has started, no step of an earlier search
\* renders a result list, writes source labels or writes the session.
C2_NoStaleSearchWrites ==
    [][\A k \in Searches :
          (k + 1 < nextSearch /\ StepOf(k)) =>
              UNCHANGED <<resultsUl, tabResultSources, aiSearchSession>>]_vars

\* The statuses a search publishes for a result: 'Found N tabs' in its
\* variants and 'No matching tabs found'.
ResultStatus == {"Found", "FoundAll", "FoundMixed", "NoMatch"}

\* C3: a search that was running when cancel was clicked never afterwards
\* sets a 'Found' or a 'No matching tabs found' status.
C3_NoResultStatusAfterCancel ==
    [][\A k \in Searches :
          (k \in cancelled /\ StepOf(k) /\ status' # status) =>
              status'.kind \notin ResultStatus]_vars

\* C4: once the signal of a search is aborted, the search renders no
\* result list, appends no id to its results, writes no reasons, scores or
\* source labels, and persists no session.
C4_NothingAfterAbort ==
    [][\A k \in Searches :
          (k \in aborted /\ StepOf(k)) =>
              /\ UNCHANGED <<resultsUl, tabResultSources, tabSelectionReasons,
                             tabSelectionScores, aiSearchSession>>
              /\ srch'[k].results = srch[k].results]_vars

\* The semantic scorer of search k has failed or found nothing: it has
\* returned the empty list, or is about to after storing its merge.
SemanticEmpty(k) ==
    \/ ai[k].pc = "done" /\ ai[k].res = <<>>
    \/ ai[k].pc \in {"merge", "ret"} /\ ai[k].out = <<>>

\* C5: in hybrid mode with a non-empty lexical list, when the semantic
\* scorer fails or returns nothing, no step of the scorer or of the
\* then-callback changes the rendered list, the source labels, the
\* session or the status, and none aborts the search; a search left alone
\* ends with the lexical list rendered and persisted in its order, every id
\* labelled 'keyword'.
C5_LexicalStandsOnSemanticFailure ==
    /\ [][\A k \in Searches :
             (HybridWithLexical(k) /\ SemanticStepOf(k) /\ SemanticEmpty(k)') =>
                 UNCHANGED <<resultsUl, tabResultSources, aiSearchSession, status, aborted>>]_vars
    /\ [](\A k \in Searches :
             (Alone(k) /\ HybridWithLexical(k) /\ Finished(k) /\ SemanticEmpty(k)) =>
                 /\ aiSearchSession = buildSessionRecord(srch[k].fb, srch[k].q)
                 /\ resultsUl = srch[k].fb
                 /\ tabResultSources = Labelled(srch[k].fb, "keyword"))

\* A hybrid search with lexical results has finished after its semantic
\* scorer returned nothing.
C5_Witness ==
    \E k \in Searches :
        /\ Alone(k) /\ HybridWithLexical(k) /\ Finished(k) /\ SemanticEmpty(k)
        /\ aiSearchSession.tabIds = LexResult[srch[k].q].ids

\* Search k reached the reconciler with the AI-only flag set, the
\* aggressive flag clear and a query that is no hashtag query.
SemanticOnly(k) ==
    /\ aiOnlyEnabled /\ ~aggressiveSearchEnabled
    /\ srch[k].mode # ""
    /\ ~Hashtag[srch[k].q].isHashtagSearch

\* C6: in AI-only mode with a non-hashtag query the lexical scorer is
\* never invoked, and when the semantic scorer returns the empty list the
\* reconciler returns the empty list.
C6_SemanticOnlyNoFallback ==
    \A k \in Searches :
        SemanticOnly(k) =>
            /\ ~srch[k].lex
            /\ srch[k].sem
            /\ (Returned(k) /\ ai[k].pc = "done" /\ ai[k].res = <<>>) => srch[k].ret = <<>>

\* An AI-only search has ended with 'No matching tabs found' after its
\* semantic scorer returned nothing.
C6_Witness ==
    \E k \in Searches :
        /\ SemanticOnly(k) /\ Finished(k)
        /\ ai[k].res = <<>>
        /\ status = Status("NoMatch", 0, k)

\* Search k ran both scorers and the lexical one found nothing.
HybridWithoutLexical(k) == srch[k].mode = "hybrid" /\ srch[k].lex /\ srch[k].fb = <<>>

\* Once the reconciler of search k has returned, the semantic scorer has
\* resolved, its list was returned, and every returned id was labelled
\* 'ai'.
ReturnsSemanticList(k) ==
    Returned(k) =>
        /\ ai[k].pc = "done"
        /\ srch[k].ret = ai[k].res
        /\ \A id \in Range(srch[k].ret) : id \in DOMAIN srch[k].srcW /\ srch[k].srcW[id] = "ai"

\* C7 (as stated): in hybrid mode without lexical results the reconciler
\* waits for the semantic scorer and returns exactly its list, every
\* returned id labelled 'ai'.
C7_WaitsForSemantic ==
    \A k \in Searches : HybridWithoutLexical(k) => ReturnsSemanticList(k)

\* C7 (amended): the same, for a search whose signal is not aborted.
C7_WaitsForSemanticUnlessAborted ==
    \A k \in Searches : (HybridWithoutLexical(k) /\ k \notin aborted) => ReturnsSemanticList(k)

\* A hybrid search without lexical results has returned the non-empty list
\* of its semantic scorer.
C7_Witness ==
    \E k \in Searches :
        /\ HybridWithoutLexical(k) /\ k \notin aborted /\ Returned(k)
        /\ srch[k].ret # <<>>
        /\ srch[k].ret = ai[k].res

\* C8: a search whose query parseHashtagQuery reports as a hashtag query
\* is answered by performTagSearch alone, whatever the mode flags: the
\* keyword extractor, the lexical scorer and the semantic scorer are not
\* invoked, the tag search results are returned, and each is labelled
\* 'keyword'.
C8_HashtagShortCircuits ==
    \A k \in Searches :
        (srch[k].mode # "" /\ Hashtag[srch[k].q].isHashtagSearch) =>
            /\ srch[k].mode = "hashtag"
            /\ srch[k].tag /\ ~srch[k].kw /\ ~srch[k].lex /\ ~srch[k].sem
            /\ ai[k].pc = "idle" /\ cont[k].pc = "idle"
            /\ Returned(k) =>
                   /\ srch[k].ret = TagResult[srch[k].q].ids
                   /\ srch[k].srcW = Labelled(srch[k].ret, "keyword")

\* A hashtag search has returned its tag matches with the aggressive flag
\* set.
C8_Witness ==
    \E k \in Searches :
        /\ aggressiveSearchEnabled
        /\ Returned(k)
        /\ srch[k].mode = "hashtag"
        /\ Hashtag[srch[k].q].isHashtagSearch
        /\ srch[k].ret # <<>>
        /\ srch[k].srcW = Labelled(srch[k].ret, "keyword")


(***************************************************************************)
(* Properties of the tag search                                            *)
(***************************************************************************)

\* a occurs in b as a run of consecutive characters.
OccursIn(a, b) == \E i \in 1..(Len(b) - Len(a) + 1) : SubSeq(b, i, i + Len(a) - 1) = a

\* A query tag and a document tag are related: equal, or one contains the
\* other, whatever the case of their letters.
Related(docTag, queryTag) ==
    \/ toLowerCase(docTag) = toLowerCase(queryTag)
    \/ OccursIn(toLowerCase(queryTag), toLowerCase(docTag))
    \/ OccursIn(toLowerCase(docTag), toLowerCase(queryTag))

\* The tag search of this state has returned.
TagSearchDone == fnIn.op = "performTagSearch" /\ fnOut.done

\* The query tag is related to a tag of tab i.
TabHasTag(i, queryTag) == \E d \in Range(fnIn.arg.lists[i]) : Related(d, queryTag)

\* The tag search returned tab i.
TagReturned(i) == i \in Range(fnOut.value.ids)

OnlyTagInsideQueryTag(i) ==
    /\ Len(fnIn.arg.lists[i]) = 1
    /\ Len(fnIn.arg.tags) = 1
    /\ Len(fnIn.arg.lists[i][1]) < Len(fnIn.arg.tags[1])
    /\ OccursIn(toLowerCase(fnIn.arg.lists[i][1]), toLowerCase(fnIn.arg.tags[1]))

\* The only tag of tab i is "js" and the query is "#JavaScript".
JsAgainstJavaScript(i) ==
    fnIn.arg.lists[i] = <<<<"j", "s">>>> /\ fnIn.arg.tags = <<<<"J", "a", "v", "a", "S", "c", "r", "i", "p", "t">>>>

\* C12 as stated: a document whose only tag is "js" is not returned for
\* the query tag "javascript", and no document tag that is a proper
\* substring of the query tag counts as a match.
C12_SubstringOfQueryTagNoMatch ==
    TagSearchDone =>
        \A i \in 1..Len(fnIn.arg.lists) :
            (JsAgainstJavaScript(i) \/ OnlyTagInsideQueryTag(i)) => ~TagReturned(i)

\* C12: a document whose only tag is "js" is not returned for the query
\* tag "javascript", "js" being no substring of "javascript"; a document
\* whose only tag is a proper substring of the query tag is returned.
C12_JsNoSubstringOfJavaScript ==
    TagSearchDone =>
        \A i \in 1..Len(fnIn.arg.lists) :
            /\ JsAgainstJavaScript(i) => ~TagReturned(i)
            /\ OnlyTagInsideQueryTag(i) => TagReturned(i)

\* The query "#JavaScript" has been answered over a tab tagged "js" and a
\* tab tagged "java": the second is returned, the first is not.
C12_Witness ==
    /\ TagSearchDone
    /\ JsAgainstJavaScript(1)
    /\ fnIn.arg.lists[2] = <<<<"j", "a", "v", "a">>>>
    /\ ~TagReturned(1)
    /\ TagReturned(2)

\* C13: a hashtag query with two tags returns only tabs that match both
\* tags; a tab that matches just one of them is not in the result.
C13_TwoTagsBothRequired ==
    (TagSearchDone /\ Len(fnIn.arg.tags) = 2) =>
        \A i \in 1..Len(fnIn.arg.lists) :
            TagReturned(i) => \A q \in Range(fnIn.arg.tags) : TabHasTag(i, q)

\* The number of positions of a sequence that hold x.
Occurrences(xs, x) == Cardinality({k \in 1..Len(xs) : xs[k] = x})

\* The distinct query tags, lowercased, that are related to a tag of tab i.
DistinctMatched(i) ==
    {toLowerCase(q) : q \in {t \in Range(fnIn.arg.tags) : TabHasTag(i, t)}}

\* C14: every document performTagSearch returns appears exactly once in
\* the result, and its stored score is 10 times the number of distinct
\* query tags that matched it, also when the query repeats a tag.
C14_ScoreTenPerDistinctTag ==
    TagSearchDone =>
        \A i \in 1..Len(fnIn.arg.lists) :
            TagReturned(i) =>
                /\ Occurrences(fnOut.value.ids, i) = 1
                /\ fnOut.value.scores[i] = 10 * Cardinality(DistinctMatched(i))

\* C23: the final id list of every mode is in relevance-rank order, the
\* stored score of an id being at least that of every id behind it, in
\* tag search as in the other modes.
C23_TagResultsInScoreOrder ==
    TagSearchDone =>
        \A a, b \in 1..Len(fnOut.value.ids) :
            a < b => fnOut.value.scores[fnOut.value.ids[a]] >= fnOut.value.scores[fnOut.value.ids[b]]

(***************************************************************************)
(* Properties of the lexical scorer                                        *)
(***************************************************************************)

\* The call of this state has returned.
LexDone(op) == fnIn.op = op /\ fnOut.done

\* The summaries and the extracted terms of the call.
LexInput == WithIds(fnIn.arg.docs)
Terms == extractKeywords(fnIn.arg.query)

\* max(2 * termCount, 4)
Threshold(termCount) == Max({2 * termCount, 4})

\* The score the progressive loop has accumulated for a tab when it
\* decides on it: the quick score, with the content score added when the
\* quick score is short of the threshold and the tab is scriptable.
Accumulated(s) ==
    IF QuickScore(s, Terms) >= Threshold(Len(Terms)) \/ ~isScriptableUrl(s.url)
    THEN QuickScore(s, Terms)
    ELSE ContentScore(s, s.fullText, Terms)

\* C15: the lexical scorer retains a document if and only if its
\* accumulated score is at least max(2 * termCount, 4), termCount being
\* the number of extracted query terms, in batch mode and in the
\* progressive loop of aggressive mode alike.
C15_RetainedIffMinScore ==
    /\ LexDone("performFallbackSearch") =>
           \A i \in 1..Len(LexInput) :
               i \in Range(fnOut.value.out.ids) <=>
                   fnOut.value.scored[i].score >= Threshold(Len(Terms))
    /\ LexDone("aggressiveSearch") =>
           \A i \in 1..Len(LexInput) :
               i \in Range(fnOut.value.ids) <=>
                   Accumulated(LexInput[i]) >= Threshold(Len(Terms))

\* A query of three terms has been scored in batch mode, and a summary
\* with a score of 4 or 5 is not among the results.
C15_Witness ==
    /\ LexDone("performFallbackSearch")
    /\ Len(Terms) = 3
    /\ \E i \in 1..Len(LexInput) :
           /\ fnOut.value.scored[i].score \in {4, 5}
           /\ i \notin Range(fnOut.value.out.ids)

\* The term without the longest of the suffixes ing, ed, s, es, ship and
\* ships it ends with: the shortest prefix that one of them completes.
Prefixes(w) == {SubSeq(w, 1, n) : n \in 0..Len(w)}
StemOf(w) ==
    LET stems == {p \in Prefixes(w) : \E x \in StemSuffixes : p \o x = w}
    IN IF stems = {} THEN w
       ELSE CHOOSE p \in stems : \A r \in stems : Len(p) <= Len(r)

\* A field contains the term, or its stem when the stem has at least
\* three characters.
TermIn(field, w) ==
    OccursIn(w, field) \/ (Len(StemOf(w)) >= 3 /\ OccursIn(StemOf(w), field))

\* The fields of a summary the batch scorer looks at.
TitleOf(s) == toLowerCase(s.title)
SummaryTextOf(s) == toLowerCase(s.summary)
JoinedTagsOf(s) == tagsText(s)
NormalizedUrlOf(s) == urlParts(s.url)

\* The points one term earns a summary: +5 title, +7 tags, +3 summary,
\* +1 URL; nothing for a term shorter than three characters.
TermPoints(s, w) ==
    IF Len(w) < 3 THEN 0
    ELSE (IF TermIn(TitleOf(s), w) THEN 5 ELSE 0) + (IF TermIn(JoinedTagsOf(s), w) THEN 7 ELSE 0)
         + (IF TermIn(SummaryTextOf(s), w) THEN 3 ELSE 0)
         + (IF TermIn(NormalizedUrlOf(s), w) THEN 1 ELSE 0)

\* The points of the first k terms.
RECURSIVE PointsUpTo(_, _)
PointsUpTo(s, k) == IF k = 0 THEN 0 ELSE PointsUpTo(s, k - 1) + TermPoints(s, Terms[k])

\* The query has one term, which summary a matches in its title while
\* summary b, with the same tags and summary text, matches it only in its
\* URL.
TitleAgainstUrlOnly(a, b) ==
    /\ Len(Terms) = 1 /\ Len(Terms[1]) >= 3
    /\ a.tags = b.tags /\ a.summary = b.summary
    /\ TermIn(TitleOf(a), Terms[1])
    /\ TermIn(NormalizedUrlOf(b), Terms[1])
    /\ ~TermIn(TitleOf(b), Terms[1])
    /\ ~TermIn(JoinedTagsOf(b), Terms[1])
    /\ ~TermIn(SummaryTextOf(b), Terms[1])

\* C16: in batch mode the score of a document is the sum, over the query
\* terms of at least three characters, of +5 when the title matches, +7
\* when the joined tags match, +3 when the summary matches and +1 when
\* the normalized URL matches, a field matching when it contains the term
\* or its stem of at least three characters; so a document that matches
\* a term in its title scores strictly higher than an otherwise identical
\* one that matches it only in its URL.
C16_BatchScoreIsWeightedSum ==
    LexDone("performFallbackSearch") =>
        /\ \A i \in 1..Len(LexInput) :
               fnOut.value.scored[i].score = PointsUpTo(LexInput[i], Len(Terms))
        /\ \A i, j \in 1..Len(LexInput) :
               TitleAgainstUrlOnly(LexInput[i], LexInput[j]) =>
                   fnOut.value.scored[i].score > fnOut.value.scored[j].score

\* The query "git" has been scored over a summary that matches it in its
\* title and one that matches it only in its URL and scores 1.
C16_Witness ==
    /\ LexDone("performFallbackSearch")
    /\ fnIn.arg.query = <<"g", "i", "t">>
    /\ TitleAgainstUrlOnly(LexInput[1], LexInput[2])
    /\ fnOut.value.scored[2].score = 1

\* C17: the ids performFallbackSearch returns are ordered by
\* non-increasing score, and documents of equal score keep the order they
\* have in the input (position i of the input carries the id i).
C17_SortedByScoreStable ==
    LexDone("performFallbackSearch") =>
        \A a, b \in 1..Len(fnOut.value.out.ids) :
            a < b =>
                LET x == fnOut.value.out.ids[a]
                    y == fnOut.value.out.ids[b]
                IN /\ fnOut.value.out.scores[x] >= fnOut.value.out.scores[y]
                   /\ fnOut.value.out.scores[x] = fnOut.value.out.scores[y] => x < y

\* The second summary of the input has been returned before the first,
\* with a higher score.
C17_Witness ==
    /\ LexDone("performFallbackSearch")
    /\ fnOut.value.out.ids = <<2, 1>>
    /\ fnOut.value.out.scores[2] > fnOut.value.out.scores[1]

(***************************************************************************)
(* Properties of the semantic scorer                                       *)
(***************************************************************************)

\* The call of this state has returned.
SemDone(op) == fnIn.op = op /\ fnOut.done

\* The candidate has been returned by the semantic scorer.
Kept(c) == c \in Range(fnOut.value.results)

\* The reason contains a phrase of the uncertainty list, whatever the
\* case of its letters.
Hedged(reason) == \E p \in uncertaintyPhrases : OccursIn(p, toLowerCase(reason))

\* C18: no candidate the semantic scorer returns has a reason that
\* contains, in any case of letters, a phrase of the uncertainty list,
\* whatever its relevanceScore, in the first pass (>= 6) and in the
\* second (>= 4).
C18_NoHedgedReasonReturned ==
    SemDone("validate") =>
        /\ \A c \in Range(fnOut.value.results) : ~Hedged(c.reason)
        /\ \A c \in Range(fnIn.arg.parsed.results) : Hedged(c.reason) => ~Kept(c)

\* The second pass has run over a response whose second candidate has a
\* relevanceScore of 10 and a reason with "Might Be": only the loose
\* candidate is returned.
C18_Witness ==
    /\ SemDone("validate")
    /\ Len(fnIn.arg.parsed.results) = 2
    /\ fnIn.arg.parsed.results[2].relevanceScore = 10
    /\ fnIn.arg.parsed.results[2].ref = <<"t", "a", "b", "1">>
    /\ OccursIn(<<"M", "i", "g", "h", "t", " ", "B", "e">>, fnIn.arg.parsed.results[2].reason)
    /\ fnOut.value.results = <<LooseCandidate>>

\* The candidate refers to a document of the list, and the document.
RefersToDoc(c) == \E i \in 1..Len(Summaries) : c.ref = <<"t", "a", "b">> \o Decimal(i)
DocOf(c) == Summaries[CHOOSE i \in 1..Len(Summaries) : c.ref = <<"t", "a", "b">> \o Decimal(i)]

\* The text occurs, whatever the case of its letters, in the title, the
\* summary, the tags or the URL of the document.
OccursInDoc(text, doc) ==
    \/ OccursIn(toLowerCase(text), toLowerCase(doc.title))
    \/ OccursIn(toLowerCase(text), toLowerCase(doc.summary))
    \/ OccursIn(toLowerCase(text), tagsText(doc))
    \/ OccursIn(toLowerCase(text), toLowerCase(doc.url.href))

\* The single-quoted substrings of the candidate's reason.
Quoted(c) == Range(quotedTexts(c.reason, 1))

\* A quoted substring that grounds the candidate: at least five
\* characters once trimmed, and found in its document.
Grounds(q, c) == Len(trim(q)) >= 5 /\ OccursInDoc(trim(q), DocOf(c))

\* C19 as stated: a candidate whose reason contains a single-quoted
\* substring that does not occur in its document's title, summary, tags
\* or URL is excluded, also when its relevanceScore is 10 and its reason
\* contains other quoted substrings.
C19_AnyUngroundedQuoteExcludes ==
    SemDone("validate") =>
        \A c \in Range(fnIn.arg.parsed.results) :
            (RefersToDoc(c) /\ \E q \in Quoted(c) : ~OccursInDoc(trim(q), DocOf(c))) => ~Kept(c)

\* C19: a candidate whose reason contains single-quoted substrings none
\* of which (trimmed, at least five characters long) occurs in its
\* document's title, summary, tags or URL is excluded, also when its
\* relevanceScore is 10; a candidate of the first pass with a quoted
\* substring that does occur passes, whatever else its reason quotes.
C19_NoGroundedQuoteExcludes ==
    SemDone("validate") =>
        \A c \in Range(fnIn.arg.parsed.results) :
            RefersToDoc(c) =>
                /\ (Quoted(c) # {} /\ \A q \in Quoted(c) : ~Grounds(q, c)) => ~Kept(c)
                /\ ( /\ \E q \in Quoted(c) : Grounds(q, c)
                     /\ c.typeOf = WellTyped
                     /\ c.relevanceScore >= 6
                     /\ ~Hedged(c.reason)
                     /\ ~tooFewKeywords(c.reason, extractKeywords(fnIn.arg.query), 4) )
                   => Kept(c)

\* A candidate for the first tab with a relevanceScore of 10 whose only
\* quoted substring is the title of the second tab has been excluded.
C19_Witness ==
    /\ SemDone("validate")
    /\ fnIn.arg.parsed.results =
           <<[ref |-> <<"t", "a", "b", "1">>, relevanceScore |-> 10, reason |-> <<"'", "D", "a", "i", "l", "y", " ", "n", "e", "w", "s", "'", " ", "w", "e", "b">>,
             typeOf |-> WellTyped]>>
    /\ fnOut.value.results = <<>>

\* C20: the prompt sent to the language model never contains a real id
\* of a document: over documents that differ only in their real ids the
\* prompt text is the same.
C20_PromptIndependentOfRealIds ==
    SemDone("userPrompt") =>
        \A ids \in IdAssignments :
            userPrompt(WithRealIds(ids), fnIn.arg.query) = fnOut.value

\* The share of the extracted query terms that occur in the reason is
\* below tenths / 10 and the reason is shorter than 50 characters.
QueryTerms == extractKeywords(fnIn.arg.query)
TermsIn(reason) ==
    Cardinality({k \in 1..Len(QueryTerms) :
                    OccursIn(toLowerCase(QueryTerms[k]), toLowerCase(reason))})
LowCoverage(c, tenths) ==
    /\ TermsIn(c.reason) * 10 < tenths * Len(QueryTerms)
    /\ Len(c.reason) < 50

\* The checks of a pass other than the coverage check: a ref of the
\* list, a reason, fields of the right type, the score floor, grounding,
\* no uncertainty.
PassesOtherChecks(c, floor) ==
    /\ RefersToDoc(c)
    /\ c.reason # <<>>
    /\ c.typeOf = WellTyped
    /\ c.relevanceScore >= floor
    /\ Quoted(c) # {} => \E q \in Quoted(c) : Grounds(q, c)
    /\ ~Hedged(c.reason)

\* The first pass accepts the candidate; it accepts some candidate.
FirstPassAccepts(c) == PassesOtherChecks(c, 6) /\ ~LowCoverage(c, 4)
FirstPassAcceptsSome == \E c \in Range(fnIn.arg.parsed.results) : FirstPassAccepts(c)

\* C28: the score floor is applied in two passes over the same response:
\* candidates with a relevanceScore below 6 are returned only when the
\* first pass (floor 6) accepts no candidate; when it accepts one, no
\* candidate below 6 is returned; no candidate below 4 is ever returned.
C28_FloorRelaxedOnlyWhenFirstPassEmpty ==
    SemDone("validate") =>
        \A c \in Range(fnOut.value.results) :
            /\ c.relevanceScore >= 4
            /\ c.relevanceScore < 6 => ~FirstPassAcceptsSome
            /\ FirstPassAcceptsSome => c.relevanceScore >= 6

\* The first pass accepted nothing of a response of two candidates, and
\* the second pass returned a candidate with a relevanceScore of 5.
C28_Witness ==
    /\ SemDone("validate")
    /\ Len(fnIn.arg.parsed.results) = 2
    /\ ~FirstPassAcceptsSome
    /\ \E c \in Range(fnOut.value.results) : c.relevanceScore = 5

\* C29: the keyword-coverage check rejects a candidate exactly when the
\* share of the extracted query terms that occur in its reason is below
\* 0.4 in the first pass (0.3 in the second) and its reason is shorter
\* than 50 characters: a candidate that passes the other checks of the
\* pass that decides is returned if and only if it is not so; a reason of
\* 50 characters or more is never rejected by this check.
C29_CoverageCheck ==
    SemDone("validate") =>
        \A c \in Range(fnIn.arg.parsed.results) :
            /\ (FirstPassAcceptsSome /\ PassesOtherChecks(c, 6)) =>
                   (Kept(c) <=> ~LowCoverage(c, 4))
            /\ (~FirstPassAcceptsSome /\ PassesOtherChecks(c, 4)) =>
                   (Kept(c) <=> ~LowCoverage(c, 3))
            /\ (Len(c.reason) >= 50 /\ PassesOtherChecks(c, 6)) => Kept(c)

\* A candidate whose reason has more than 50 characters and none of the
\* query terms has been returned.
C29_Witness ==
    /\ SemDone("validate")
    /\ \E c \in Range(fnOut.value.results) :
           Len(c.reason) >= 50 /\ TermsIn(c.reason) = 0

\* C21: the result set of every mode holds each document id at most
\* once, also when the response of the model lists the same ref more than
\* once: the ids the semantic scorer returns are pairwise different.
C21_SemanticIdsUnique ==
    SemDone("validate") =>
        \A a, b \in 1..Len(fnOut.value.ids) :
            a # b => fnOut.value.ids[a] # fnOut.value.ids[b]

(***************************************************************************)
(* Properties of the semantic scorer inside a search                       *)
(***************************************************************************)

\* The semantic scorer of search k returns in this step.
ScorerReturns(k) == ai[k].pc # "done" /\ ai'[k].pc = "done"

\* C30: tryOnDeviceSelectFromSummaries never throws to its caller, and
\* it returns an empty list when no session is created, when the prompt
\* returns null, an unparsable text or throws, and when the signal of the
\* search is aborted.
C30_EmptyOnFailureOrAbort ==
    [][\A k \in Searches :
          (ScorerReturns(k) /\ (ai[k].pc \in {"session", "prompt"} \/ k \in aborted))
              => ai'[k].res = <<>>]_vars

\* The reason the keyword scorer of the mode of search k gives for id:
\* the tag search, the batch lexical scorer or the progressive loop.
KeywordResultIds(k) ==
    CASE srch[k].mode = "hashtag" -> Range(TagResult[srch[k].q].ids)
      [] srch[k].mode = "hybrid" -> Range(LexResult[srch[k].q].ids)
      [] srch[k].mode = "aggressive" -> Range(srch[k].results)
      [] OTHER -> {}
KeywordReason(k, id) ==
    CASE srch[k].mode = "hashtag" -> TagResult[srch[k].q].reasons[id]
      [] srch[k].mode = "hybrid" -> LexResult[srch[k].q].reasons[id]
      [] OTHER -> Progressive[srch[k].q][TabIndex(id)].reason

\* The reason stored for id is the one search k's authoritative scorer
\* produced: the semantic scorer's when it returned the id, the keyword
\* scorer's otherwise.
ReasonFromAuthority(k, id) ==
    /\ id \in DOMAIN tabSelectionReasons
    /\ IF id \in Range(ai[k].res)
       THEN tabSelectionReasons[id] = SemReasons(ai[k].res)[id]
       ELSE id \in KeywordResultIds(k) /\ tabSelectionReasons[id] = KeywordReason(k, id)

\* Every search that was started has finished, and so has the end
\* button's handler.
AllFinished ==
    /\ nextSearch > 1
    /\ \A j \in Searches : srch[j].pc = "idle" \/ Finished(j)
    /\ endc.pc = "idle"

\* C24: when a search has finished and a session is persisted, every id
\* of the session's tabIds has a reason in tabSelectionReasons, produced
\* for the query of the session by the scorer that is authoritative for
\* the id in a search for that query.
C24_SessionIdsHaveReasons ==
    (AllFinished /\ aiSearchSession.present) =>
        \E k \in Searches :
            /\ srch[k].pc = "done"
            /\ srch[k].q = aiSearchSession.query
            /\ \A id \in Range(aiSearchSession.tabIds) : ReasonFromAuthority(k, id)

\* The ordered ids a finished search leaves behind: the tabIds of the
\* persisted session, or nothing when the session was removed.
FinalIds == IF aiSearchSession.present THEN aiSearchSession.tabIds ELSE <<>>

\* The ids of the progressive loop for query q, in tab order.
ProgressiveIds(q) ==
    IdsOf(SelectSeq([i \in 1..Len(Tabs) |-> [id |-> Tabs[i].id, i |-> i]],
                    LAMBDA x : QuickHit(x.i, q)
                                  \/ (isScriptableUrl(Summaries[x.i].url) /\ ContentHit(x.i, q))))

\* The ordered ids that query q, mode and the validated model response
\* sem determine when the then-callback runs after the handler: the
\* semantic list when there is one, the keyword list otherwise.
DeterminedIds(q, mode, sem) ==
    CASE mode = "hashtag" -> TagResult[q].ids
      [] mode = "aggressive" -> ProgressiveIds(q)
      [] mode = "aionly" -> sem
      [] OTHER -> IF sem # <<>> THEN sem ELSE LexResult[q].ids

\* C25: a search that runs alone to its end leaves the ordered id
\* sequence that its query, its mode and the model response determine,
\* however the lexical and the semantic callbacks interleave.
C25_FinalIdsIndependentOfInterleaving ==
    \A k \in Searches :
        (Alone(k) /\ Finished(k)) =>
            FinalIds = DeterminedIds(srch[k].q, srch[k].mode, ai[k].res)

\* The ids of the session whose tabs are open, each once, in the order
\* of tabIds.
OpenSessionIds ==
    Dedup(SelectSeq(aiSearchSession.tabIds, LAMBDA id : id \in Range(IdsOf(OpenTabs))))

\* A consumer of the session has rendered or updated the result list.
ConsumerActed == fnIn.op = "session" /\ fnOut.done /\ aiSearchSession.present

C26_SummaryAndTagsBounded ==
    (fnIn.op = "summarizeBatch" /\ fnOut.done) =>
        Len(fnOut.value.summary) <= 500 /\ Len(fnOut.value.tags) <= 30

\* getExistingSummaries has returned for the tab.
CacheRead == fnIn.op = "getExistingSummaries" /\ fnOut.done

\* The summary returned is the one of the cache entry.
CachedSummaryUsed == CacheEntry.present /\ fnOut.value.summary = CacheEntry.summary

\* The url of the tab is no longer the one the entry was written for.
UrlChanged == CacheEntry.present /\ CacheEntry.url # CacheTab.url.href

\* The title/url fallback: title and url joined and trimmed.
TitleUrlFallback == trim(CacheTab.title \o <<" ">> \o CacheTab.url.href)

\* C27: the cached summary is returned only when the url of the entry is
\* the tab's current url, the entry is less than 24 hours old and its
\* summary is not empty; for a tab that changed its url since the entry
\* was written the title/url fallback is returned.
C27_CacheUsedOnlyWhenValid ==
    CacheRead =>
        /\ CachedSummaryUsed =>
               /\ CacheEntry.url = CacheTab.url.href
               /\ CacheNow - CacheEntry.timestamp < 24 * 60 * 60 * 1000
               /\ CacheEntry.summary # <<>>
        /\ UrlChanged => fnOut.value.summary = TitleUrlFallback

\* The tab shows another page while its entry, one millisecond
\* old, is still in the cache, and the fallback was returned.
C27_Witness ==
    /\ CacheRead
    /\ UrlChanged
    /\ CacheEntry.summary # <<>>
    /\ CacheNow - CacheEntry.timestamp = 1
    /\ fnOut.value.summary = TitleUrlFallback

\* The summary the ref of a returned candidate stands for.
SummaryOfRef(ref) ==
    Summaries[CHOOSE i \in 1..Len(Summaries) : <<"t", "a", "b">> \o Decimal(i) = ref]

\* C31: every id the semantic scorer returns is the id of the supplied
\* document its candidate's ref stands for; every returned candidate has
\* a ref of the list, a finite relevanceScore and a non-empty string as
\* reason; the list is sorted by relevanceScore, highest first.
C31_ReturnedIdsAreSuppliedAndWellFormed ==
    SemDone("validate") =>
        /\ Len(fnOut.value.ids) = Len(fnOut.value.results)
        /\ \A i \in 1..Len(fnOut.value.results) :
               LET r == fnOut.value.results[i]
               IN /\ r.typeOf = WellTyped
                  /\ r.ref # <<>> /\ r.reason # <<>>
                  /\ \E j \in 1..Len(Summaries) : <<"t", "a", "b">> \o Decimal(j) = r.ref
                  /\ fnOut.value.ids[i] = SummaryOfRef(r.ref).id
        /\ \A a, b \in 1..Len(fnOut.value.results) :
               a < b => fnOut.value.results[a].relevanceScore
                            >= fnOut.value.results[b].relevanceScore

\* A candidate whose relevanceScore is the string "9" came before the
\* solid one: only the solid one, of the third tab, is returned.
C31_Witness ==
    /\ SemDone("validate")
    /\ Len(fnIn.arg.parsed.results) = 2
    /\ fnIn.arg.parsed.results[1].typeOf.relevanceScore = "string"
    /\ fnOut.value.results = <<SolidCandidate>>
    /\ fnOut.value.ids = <<Summaries[3].id>>

\* The catch branch of summarizeTabsWithProgress has just run for a batch.
BatchFailed == Bg.pc = "set" /\ Bg.last.outcome.thrown

\* C32: when the summarization of a batch fails, every tab of the batch
\* gets an entry whose summary is the tab's title, a space and its url
\* (trimmed) and whose tags are the tags generateFallbackTags derives from
\* the title and the url.
C32_FailedBatchGetsFallbackSummaryAndTags ==
    BatchFailed =>
        \A i \in Bg.last.ids :
            LET t == fnIn.arg.tabs[i]
            IN /\ Bg.local[i].present
               /\ Bg.local[i].summary = trim(t.title \o <<" ">> \o t.url.href)
               /\ Bg.local[i].hasTags
               /\ Bg.local[i].tags = generateFallbackTags(t.title, t.url)

\* Every removal handler of a closed tab and the summarization run are done.
AllWritesCompleted ==
    /\ Bg.pc = "done"
    /\ \A id \in Bg.closed : Bg.handler[id].pc = "done"

\* C39: once a tab is closed and its removal handler and every write of
\* the summarization run have completed, tabSummaries in storage has no
\* entry under the id of the closed tab.
C39_NoEntryForClosedTab ==
    AllWritesCompleted => \A id \in Bg.closed : ~Bg.stored[id].present

\* The creations of a key that have not settled, and those that gave a
\* session.
InFlight(key) ==
    { p \in 1..Len(Dev.creations) : Dev.creations[p].key = key /\ ~Dev.creations[p].settled }
Succeeded(key) ==
    { p \in 1..Len(Dev.creations) :
        /\ Dev.creations[p].key = key /\ Dev.creations[p].settled
        /\ Dev.creations[p].session # NoModelSession }

\* C33: for every key at most one creation is in flight; a call made
\* while a creation of its key is pending is given the promise of that
\* creation; at most one creation of a key succeeds, and a call answered
\* from the cache is given the session of that creation.
C33_OneCreationInFlightPerKey ==
    /\ \A key \in PurposeKeys : Cardinality(InFlight(key)) <= 1
    /\ \A key \in PurposeKeys : Cardinality(Succeeded(key)) <= 1
    /\ \A i \in 1..Len(Dev.calls) :
          LET c == Dev.calls[i]
          IN /\ c.via = "pending" =>
                    /\ Dev.creations[c.promise].key = c.key
                    /\ \E j \in 1..(i - 1) :
                          Dev.calls[j].via = "created" /\ Dev.calls[j].promise = c.promise
             /\ c.via = "cache" => Succeeded(c.key) = {c.session}
             /\ c.via = "created" => Dev.creations[c.promise].key = c.key

\* Two calls share one creation, a third is answered from the cache, a
\* fourth starts the creation of the other key.
C33_Witness ==
    /\ Len(Dev.calls) = 4
    /\ Dev.calls[1].via = "created" /\ Dev.calls[2].via = "pending"
    /\ Dev.calls[2].promise = Dev.calls[1].promise
    /\ Dev.calls[3].via = "cache" /\ Dev.calls[3].key = Dev.calls[1].key
    /\ Dev.calls[3].session = Dev.calls[1].promise
    /\ Dev.calls[4].via = "created" /\ Dev.calls[4].key # Dev.calls[1].key

\* The ids of the tabs closed through the close button of a result.
ClosedIds == Range(IdsOf(BrowserTabs)) \ Range(IdsOf(OpenTabs))

\* C34: the id of a tab closed through the result list is not in the
\* tabIds of the persisted session, whatever happens after the tab was
\* closed (a semantic replacement that completes later included).
C34_ClosedIdNeverInSession ==
    (fnIn.op = "session" /\ aiSearchSession.present) =>
        \A id \in ClosedIds : id \notin Range(aiSearchSession.tabIds)

\* C35: after any sequence and interleaving of the two change handlers
\* and the load callback, aggressiveSearchEnabled and aiOnlyEnabled are
\* not both true.
C35_ModeFlagsExclusive ==
    fnIn.op = "toggles" => ~(aggressiveSearchEnabled /\ aiOnlyEnabled)

\* Both preferences were saved as true; an Aggressive handler started
\* before the load callback still waits, and AI Only was enabled after it.
C35_Witness ==
    /\ fnIn.op = "toggles"
    /\ Saved.aggressiveSearchEnabled /\ Saved.aiOnlyEnabled
    /\ ~Tog.loading
    /\ Tog.pendingAggressive = 1
    /\ aiOnlyEnabled /\ Tog.aiOnlyChecked

\* Search k is in the progressive loop before and after the step.
InProgressiveLoop(k) ==
    /\ srch[k].mode = "aggressive" /\ srch'[k].mode = "aggressive"
    /\ srch[k].pc \in {"aggStart", "aggSrc", "aggRender", "aggContent", "aggFinal"}

\* C36: in aggressive mode the tabs are scored one at a time in the order
\* of the tab enumeration, and no step changes the result list of a
\* search except by appending one id of a later tab, after the list so
\* far was published; what a step of the search renders or marks is its
\* list.
C36_ProgressiveListOnlyGrowsByOne ==
    [][\A k \in Searches :
          InProgressiveLoop(k) =>
              /\ srch'[k].i >= srch[k].i
              /\ \/ srch'[k].results = srch[k].results
                 \/ /\ \E i \in 1..Len(Tabs) :
                          /\ srch'[k].results = Append(srch[k].results, Tabs[i].id)
                          /\ i = srch'[k].i
                          /\ \A j \in 1..Len(srch[k].results) :
                                 TabIndex(srch[k].results[j]) < i
                    /\ \/ srch[k].results = <<>>
                       \/ srch[k].srcW = Labelled(srch[k].results, "keyword")
              /\ (srch[k].pc = "aggRender" /\ srch'[k] # srch[k]) =>
                     resultsUl' = srch[k].results
              /\ (srch[k].pc \in {"aggSrc", "aggFinal"} /\ srch'[k] # srch[k]) =>
                     tabResultSources' = Labelled(srch[k].results, "keyword")]_vars

\* A progressive search has published a list of one id and then the
\* list of two ids that extends it.
C36_Witness ==
    \E k \in Searches :
        /\ srch[k].mode = "aggressive"
        /\ srch[k].pc = "aggFinal"
        /\ Len(srch[k].results) = 2
        /\ resultsUl = srch[k].results
        /\ srch[k].srcW = Labelled(srch[k].results, "keyword")

\* No call of logSearchHistory, removeFromHistory or loadHistory is
\* under way.
HistoryQuiet == \A n \in 1..Len(Hist.ops) : Hist.ops[n].pc = "done"

\* C37: today's stored history has at most 5 entries and no query twice;
\* once the searches and removals have completed, the query of the
\* search that completed last (unless it was removed since) is first.
C37_HistoryBoundedUniqueRecentFirst ==
    fnIn.op = "history" =>
        /\ Len(searchHistory) <= 5
        /\ \A a, b \in 1..Len(searchHistory) : a # b => searchHistory[a] # searchHistory[b]
        /\ (HistoryQuiet /\ Hist.lastLogged # 0) =>
               (searchHistory # <<>> /\ searchHistory[1] = Hist.lastLogged)

\* The semantic scorer of a hybrid search with lexical results has
\* resolved and the search was not cancelled.
SemanticResolved(k) ==
    /\ HybridWithLexical(k)
    /\ ai[k].pc = "done"
    /\ k \notin aborted /\ k \notin cancelled

\* The status is a final 'Found N tab(s)' message; or the search was
\* cancelled or followed by another search after all.
FinalFoundStatus(k) ==
    \/ status.kind \in {"Found", "FoundMixed"} /\ srch[k].pc = "done"
    \/ k \in aborted \/ k \in cancelled
    \/ nextSearch > k + 1

\* C38: in hybrid mode with lexical results, once the semantic scorer has
\* resolved and the search is not cancelled, the search eventually ends
\* with a final 'Found N tab(s)' status.
C38_FinalStatusEventually ==
    \A k \in Searches : SemanticResolved(k) ~> FinalFoundStatus(k)

\* A step of handleEndSearch.
EndSearchStep == endc' # endc

\* C40: no step of handleEndSearch changes tabSummaries, the cached
\* model sessions or the search history; when it returns, the session is
\* removed.
C40_EndSearchKeepsCaches ==
    [][(fnIn.op = "handleEndSearch" /\ EndSearchStep) =>
          /\ Caches'.tabSummaries = Caches.tabSummaries
          /\ Caches'.sessionCache = Caches.sessionCache
          /\ searchHistory' = searchHistory
          /\ (endc'.pc = "idle" => ~aiSearchSession'.present)]_vars

\* The end button's handler has returned: the session is gone, while
\* summaries, a model session and the history are still stored.
C40_Witness ==
    /\ fnIn.op = "handleEndSearch"
    /\ endCount = 1 /\ endc.pc = "idle"
    /\ ~aiSearchSession.present
    /\ Caches.tabSummaries = {1, 2}
    /\ Caches.sessionCache = {"select_scored"}
    /\ Len(searchHistory) >= 2
====
